---- MODULE Spec2Model ----
(***************************************************************************)
(* A model of the CCDA -> OMOP conversion core:                            *)
(*   - the field resolution engine of prototype_2/data_driven_parse.py     *)
(*     (parse_doc, parse_config_from_xml_file, parse_config_for_single_root *)
(*     and the do_*_fields phases),                                        *)
(*   - the visit hierarchy classifier and the clinical event linker of     *)
(*     prototype_2/visit_reconcilliation.py.                               *)
(* Three specifications share the variables: Spec (engine), SpecVisit      *)
(* (classifier) and SpecLink (linker); each leaves the variables of the    *)
(* other two at their idle values.                                         *)
(***************************************************************************)
EXTENDS Integers, Sequences, FiniteSets, TLC

(***************************************************************************)
(* Python values.  None, integers, strings and hash results are kept apart *)
(* by a tag, as Python keeps them apart by type.                           *)
(***************************************************************************)
Null == [k |-> "null"]
IntV(n) == [k |-> "int", v |-> n]
StrV(s) == [k |-> "str", v |-> s]

\* a list of records, the value of a config in omop_dict when it is not None
ListV(rows) == [k |-> "list", v |-> rows]

\* ---- bounds of the model -------------------------------------------------
MaxDocs == 2
MaxRoots == 2
MaxVal == 2

\* ---- helpers on Python dicts and lists -----------------------------------
Put(d, key, val) == [x \in (DOMAIN d) \cup {key} |-> IF x = key THEN val ELSE d[x]]

EmptyDict == [x \in {} |-> Null]

Range(s) == {s[i] : i \in DOMAIN s}

IsPrefix(s, t) == Len(s) <= Len(t) /\ \A i \in 1..Len(s) : s[i] = t[i]

\* ---- str(), '|'.join(), str.encode() and bytes.upper() -------------------
\* A Python string is a sequence of characters, each a one-character string
\* or, outside ASCII, the name of its code point ("U+00E9" is e with acute,
\* "U+00C9" its capital).  A bytes value is a sequence of bytes: an ASCII byte
\* is written as its character, any other byte as "0x" and two hex digits.
Digit(d) == CASE d = 0 -> "0" [] d = 1 -> "1" [] d = 2 -> "2" [] d = 3 -> "3"
              [] d = 4 -> "4" [] d = 5 -> "5" [] d = 6 -> "6" [] d = 7 -> "7"
              [] d = 8 -> "8" [] d = 9 -> "9"

RECURSIVE NatChars(_)
NatChars(n) == IF n < 10 THEN <<Digit(n)>> ELSE NatChars(n \div 10) \o <<Digit(n % 10)>>

IntChars(n) == IF n < 0 THEN <<"-">> \o NatChars(0 - n) ELSE NatChars(n)

UpperChar(c) == CASE c = "a" -> "A" [] c = "b" -> "B" [] c = "c" -> "C" [] c = "d" -> "D"
                  [] c = "e" -> "E" [] c = "f" -> "F" [] c = "g" -> "G" [] c = "h" -> "H"
                  [] c = "i" -> "I" [] c = "j" -> "J" [] c = "k" -> "K" [] c = "l" -> "L"
                  [] c = "m" -> "M" [] c = "n" -> "N" [] c = "o" -> "O" [] c = "p" -> "P"
                  [] c = "q" -> "Q" [] c = "r" -> "R" [] c = "s" -> "S" [] c = "t" -> "T"
                  [] c = "u" -> "U" [] c = "v" -> "V" [] c = "w" -> "W" [] c = "x" -> "X"
                  [] c = "y" -> "Y" [] c = "z" -> "Z" [] OTHER -> c

\* bytes.upper(): only the ASCII letters change
upper(s) == [i \in DOMAIN s |-> UpperChar(s[i])]

\* the UTF-8 encoding of one character
EncodeChar(c) == CASE c = "U+00E9" -> <<"0xC3", "0xA9">>
                   [] c = "U+00C9" -> <<"0xC3", "0x89">>
                   [] OTHER -> <<c>>

\* input_string.encode('utf-8')
RECURSIVE encode(_)
encode(s) == IF s = <<>> THEN <<>> ELSE EncodeChar(s[1]) \o encode(Tail(s))

\* The first 13 hexadecimal digits of an MD5 digest cannot be computed here;
\* the digest is kept as a term over the bytes that were hashed.
HashV(bytes) == [k |-> "hash", v |-> bytes]

create_hash(input_string) ==
    IF input_string = <<>> THEN Null ELSE HashV(upper(encode(input_string)))

str(val) == CASE val.k = "null" -> <<"N", "o", "n", "e">>
              [] val.k = "int" -> IntChars(val.v)
              [] val.k = "str" -> val.v
              [] val.k = "hash" -> <<"#">> \o val.v

RECURSIVE join(_)
join(strs) == IF strs = <<>> THEN <<>>
              ELSE IF Len(strs) = 1 THEN strs[1]
              ELSE strs[1] \o <<"|">> \o join(Tail(strs))

(***************************************************************************)
(* Metadata: config name -> ordered mapping field name -> field spec.      *)
(* An absent attribute of a field spec is <<>>, a present one <<value>>.   *)
(***************************************************************************)
Chars(name) ==
    CASE name = "Person" -> <<"P", "e", "r", "s", "o", "n">>
      [] name = "Visit" -> <<"V", "i", "s", "i", "t">>
      [] name = "Visit_encompassingEncounter" ->
            <<"V", "i", "s", "i", "t", "_", "e", "n", "c", "o", "m", "p", "a", "s", "s",
              "i", "n", "g", "E", "n", "c", "o", "u", "n", "t", "e", "r">>
      [] name = "Measurement" -> <<"M", "e", "a", "s", "u", "r", "e", "m", "e", "n", "t">>
      [] name = "Drug" -> <<"D", "r", "u", "g">>
      [] name = "Location" -> <<"L", "o", "c", "a", "t", "i", "o", "n">>
      [] name = "Care_Site" -> <<"C", "a", "r", "e", "_", "S", "i", "t", "e">>
      [] name = "Provider" -> <<"P", "r", "o", "v", "i", "d", "e", "r">>
      [] name = "doc.xml" -> <<"d", "o", "c", ".", "x", "m", "l">>
      [] name = "x" -> <<"x">>
      [] name = "y" -> <<"y">>

FieldSpec(name, config_type) ==
    [name |-> name, config_type |-> config_type, data_type |-> <<>>,
     constant_value |-> Null, FUNCTION |-> "", argument_names |-> <<>>,
     fields |-> <<>>, priority |-> <<>>, default |-> <<>>, order |-> <<>>]

\* Header config: two candidate identifiers coalesced by priority into
\* person_id, and a hash key computed from the coalesced identifier.  The
\* field of rank 2 is declared before the field of rank 1, as in the example
\* of do_priority_fields; the target carries a 'default' key, which a
\* metadata dictionary may hold like any other key.
PersonConfig ==
    [name |-> "Person", expected_domain_id |-> StrV(Chars("Person")),
     fields |-> <<
        [FieldSpec("person_id_other", "FIELD") EXCEPT !.data_type = <<"LONG">>,
                                                      !.priority = <<"person_id", 2>>],
        [FieldSpec("person_id_ssn", "FIELD") EXCEPT !.data_type = <<"LONG">>,
                                                    !.priority = <<"person_id", 1>>],
        [FieldSpec("person_id", "PRIORITY") EXCEPT !.default = <<IntV(0)>>,
                                                   !.order = <<1>>],
        [FieldSpec("person_key", "HASH") EXCEPT !.fields = <<"person_id">>, !.order = <<2>>],
        [FieldSpec("gender_concept_id", "None") EXCEPT !.order = <<3>>],
        [FieldSpec("cfg_name", "CONSTANT") EXCEPT !.constant_value = StrV(Chars("Person")),
                                                  !.order = <<4>>],
        [FieldSpec("filename", "FILENAME") EXCEPT !.order = <<5>>] >>]

VisitConfig ==
    [name |-> "Visit", expected_domain_id |-> StrV(Chars("Visit")),
     fields |-> <<
        [FieldSpec("visit_occurrence_id", "PK") EXCEPT !.data_type = <<"LONG">>, !.order = <<1>>],
        [FieldSpec("person_id", "FK") EXCEPT !.order = <<2>>],
        FieldSpec("provider_code", "FIELD"),
        [FieldSpec("provider_id", "DERIVED")
            EXCEPT !.FUNCTION = "codemap_xwalk_concept_id",
                   !.argument_names = << <<"concept_code", "provider_code">>,
                                         <<"default", IntV(0)>> >>,
                   !.order = <<3>>] >>]

\* Clinical config, after the pattern of
\* metadata/OBSERVATION-from-encounter_participantRole.py.
MeasurementConfig ==
    [name |-> "Measurement", expected_domain_id |-> StrV(Chars("Measurement")),
     fields |-> <<
        [FieldSpec("measurement_id", "HASH")
            EXCEPT !.fields = <<"person_id", "provider_id", "measurement_concept_code">>,
                   !.order = <<1>>],
        [FieldSpec("person_id", "FK") EXCEPT !.order = <<2>>],
        FieldSpec("measurement_concept_code", "FIELD"),
        [FieldSpec("domain_id", "DERIVED")
            EXCEPT !.FUNCTION = "codemap_xwalk_domain_id",
                   !.argument_names = << <<"concept_code", "measurement_concept_code">>,
                                         <<"default", IntV(0)>> >>],
        [FieldSpec("measurement_concept_id", "DERIVED")
            EXCEPT !.FUNCTION = "codemap_xwalk_concept_id",
                   !.argument_names = << <<"concept_code", "measurement_concept_code">>,
                                         <<"default", IntV(0)>> >>,
                   !.order = <<3>>],
        [FieldSpec("measurement_source_concept_id", "DERIVED")
            EXCEPT !.FUNCTION = "codemap_xwalk_source_concept_id",
                   !.argument_names = << <<"concept_code", "measurement_concept_code">>,
                                         <<"vocabulary_oid", "measurement_concept_system">>,
                                         <<"default", Null>> >>,
                   !.order = <<16>>],
        [FieldSpec("unit_concept_id", "None") EXCEPT !.order = <<11>>],
        [FieldSpec("id_values", "DERIVED2") EXCEPT !.FUNCTION = "concat_field_list_values",
                                                   !.order = <<4>>],
        [FieldSpec("provider_id", "FK") EXCEPT !.order = <<12>>],
        [FieldSpec("visit_occurrence_id", "FK") EXCEPT !.order = <<13>>] >>]

Metadata == <<PersonConfig, VisitConfig, MeasurementConfig>>

FieldNames == UNION {{Metadata[c].fields[i].name : i \in DOMAIN Metadata[c].fields}
                     : c \in DOMAIN Metadata}

\* Values a document can yield for a field, after the data_type coercion.
LongValues == {IntV(n) : n \in {-1} \cup (1..MaxVal)}

CodeValues == {StrV(Chars("x")), StrV(Chars("y"))}

DocValues(field_details_dict) ==
    {Null} \cup (IF field_details_dict.data_type = <<"LONG">> THEN LongValues ELSE CodeValues)

(***************************************************************************)
(* State of the field resolution engine.                                   *)
(***************************************************************************)
VARIABLES
    pc,                 \* position in parse_doc / parse_config_from_xml_file /
                        \* parse_config_for_single_root
    doc,                \* number of the document being processed
    cfg,                \* index in Metadata of the config being resolved
    nroots,             \* root elements of this config resolved so far
    output_dict,        \* the record in progress
    pk_dict,            \* PKTable: field name -> list of values
    error_fields_set,   \* ErrorFieldSet of the config being resolved
    output_list,        \* accepted records of the config being resolved
    omop_dict,          \* config name -> list of records (<<>> before the first config)
    phases,             \* history: the phases run on the current root element
    produced            \* history: <<field, value>> pairs appended to pk_dict
                        \* while processing the current document

engineVars == <<pc, doc, cfg, nroots, output_dict, pk_dict, error_fields_set,
                output_list, omop_dict, phases, produced>>

\* pc and omop_dict are also the position and the data of the classifier and of
\* the linker, which work on the dictionary parse_doc returns.
VARIABLES
    all_visits,             \* reclassify_...: the visits collected from both configs
    deduplicated_visits,    \* list(visit_map.values())
    parent_visits,          \* identify_inpatient_parents(deduplicated_visits)
    visit_to_parent_map,    \* visit id -> id of its most specific parent
    nested_visit_ids,       \* the ids that got a parent
    pending,                \* the part of nested_visit_ids the loop has yet to visit
    visit_id,               \* the nested visit of the current iteration
    top_level_parent_id,    \* the position of the upward walk
    visit_detail_list       \* the visit_detail records made so far

visitVars == <<all_visits, deduplicated_visits, parent_visits, visit_to_parent_map,
               nested_visit_ids, pending, visit_id, top_level_parent_id,
               visit_detail_list>>

VARIABLES
    data_in,                \* history: the dictionary the linker was called with
    cfg_i,                  \* linker: position in config_to_domain_map.items()
    thing_i                 \* linker: position in the record list of that config

linkVars == <<data_in, cfg_i, thing_i>>

\* One call of a function of the engine on its own: create_hash on a string,
\* make_distinct on a list of records.
VARIABLES
    call_argument,          \* the value the function is called with
    call_result             \* the value it returned, None before it returns

callVars == <<call_argument, call_result>>

vars == <<engineVars, visitVars, linkVars, callVars>>

config_dict == Metadata[cfg].fields

\* defaultdict(list): every field name maps to a list, empty until appended to.
EmptyPK == [f \in FieldNames |-> <<>>]

\* ---- the phases ----------------------------------------------------------
\* Each do_*_fields walks config_dict.items() in order; i is the position.
RECURSIVE do_none_fields(_, _, _)
do_none_fields(out, config, i) ==
    IF i > Len(config) THEN out
    ELSE do_none_fields(IF config[i].config_type = "None"
                        THEN Put(out, config[i].name, Null) ELSE out,
                        config, i + 1)

RECURSIVE do_constant_fields(_, _, _)
do_constant_fields(out, config, i) ==
    IF i > Len(config) THEN out
    ELSE do_constant_fields(IF config[i].config_type = "CONSTANT"
                            THEN Put(out, config[i].name, config[i].constant_value) ELSE out,
                            config, i + 1)

RECURSIVE do_filename_fields(_, _, _, _)
do_filename_fields(out, config, filename, i) ==
    IF i > Len(config) THEN out
    ELSE do_filename_fields(IF config[i].config_type = "FILENAME"
                            THEN Put(out, config[i].name, filename) ELSE out,
                            config, filename, i + 1)

\* parse_field_from_dict: the value the document holds for the field under the
\* root element, after coercion; attrs maps the field names to these values.
BasicNames(config) ==
    {config[i].name : i \in {j \in DOMAIN config : config[j].config_type \in {"FIELD", "PK"}}}

FieldByName(config, name) ==
    config[CHOOSE i \in DOMAIN config : config[i].name = name]

RootValues(config) ==
    {attrs \in [BasicNames(config) -> {Null} \cup LongValues \cup CodeValues] :
        \A n \in BasicNames(config) : attrs[n] \in DocValues(FieldByName(config, n))}

parse_field_from_dict(field_details_dict, attrs) == attrs[field_details_dict.name]

\* state of a phase: the record, the PKTable and the error set
PhaseState(out, pk, err) == [out |-> out, pk |-> pk, err |-> err]

\* (mutant of pk_appended: a value of None is not kept in the PKTable)
pk_appended_if_value(values, attribute_value) ==
    IF attribute_value = Null THEN values ELSE Append(values, attribute_value)

\* line 370: pk_dict[field_tag].append(attribute_value)
pk_appended(values, attribute_value) == Append(values, attribute_value)

RECURSIVE do_basic_fields(_, _, _, _)
do_basic_fields(st, config, attrs, i) ==
    IF i > Len(config) THEN st
    ELSE LET f == config[i]
             attribute_value == parse_field_from_dict(f, attrs)
         IN do_basic_fields(
                IF f.config_type = "FIELD"
                THEN [st EXCEPT !.out = Put(st.out, f.name, attribute_value)]
                ELSE IF f.config_type = "PK"
                THEN [st EXCEPT !.out = Put(st.out, f.name, attribute_value),
                                !.pk[f.name] = pk_appended(st.pk[f.name], attribute_value)]
                ELSE st,
                config, attrs, i + 1)

\* ---- the function registry (prototype_2/value_transformations) -----------
\* A call either returns a value or raises.
Returned(val) == [raised |-> "", value |-> val]

Raised(exception) == [raised |-> exception, value |-> Null]

\* Vocabulary lookup of the domain of a concept code.
codemap_xwalk_domain_id(args_dict) ==
    IF "concept_code" \notin DOMAIN args_dict THEN Raised("KeyError")
    ELSE IF args_dict["concept_code"] = StrV(Chars("x")) THEN Returned(StrV(Chars("Measurement")))
    ELSE IF args_dict["concept_code"] = StrV(Chars("y")) THEN Returned(StrV(Chars("Drug")))
    ELSE Returned(Null)

\* Vocabulary lookup of the concept id of a concept code: the id mapped to the
\* code, the default where nothing is mapped; a code of None makes the lookup
\* fail with a ValueError.
codemap_xwalk_concept_id(args_dict) ==
    IF "concept_code" \notin DOMAIN args_dict THEN Raised("KeyError")
    ELSE IF args_dict["concept_code"] = Null THEN Raised("ValueError")
    ELSE IF args_dict["concept_code"] = StrV(Chars("x")) THEN Returned(IntV(1))
    ELSE IF args_dict["concept_code"] = StrV(Chars("y")) THEN Returned(IntV(2))
    ELSE Returned(args_dict["default"])

\* Vocabulary lookup of a source concept id, by code and vocabulary.
codemap_xwalk_source_concept_id(args_dict) ==
    IF {"concept_code", "vocabulary_oid"} \subseteq DOMAIN args_dict
    THEN Returned(args_dict["default"])
    ELSE Raised("KeyError")

CallFunction(function_reference, args_dict) ==
    CASE function_reference = "codemap_xwalk_domain_id" -> codemap_xwalk_domain_id(args_dict)
      [] function_reference = "codemap_xwalk_concept_id" -> codemap_xwalk_concept_id(args_dict)
      [] function_reference = "codemap_xwalk_source_concept_id" ->
            codemap_xwalk_source_concept_id(args_dict)
      [] OTHER -> Raised("TypeError")

\* ---- Derived ---------------------------------------------------------------
\* (mutant of argument_value: the argument is bound to the name of the field)
argument_field_name(out, field_name) == StrV(<<field_name>>)

\* line 470: output_dict[field_name]
argument_value(out, field_name) == out[field_name]

RECURSIVE build_args_dict(_, _, _, _)
build_args_dict(acc, argument_names, out, i) ==
    IF i > Len(argument_names) THEN acc
    ELSE LET arg_name == argument_names[i][1]
             field_name == argument_names[i][2]
         IN build_args_dict(
                IF arg_name = "default"
                THEN [acc EXCEPT !.args = Put(acc.args, arg_name, field_name)]
                ELSE IF field_name \notin DOMAIN out
                THEN [acc EXCEPT !.missing = TRUE]
                ELSE [acc EXCEPT !.args = Put(acc.args, arg_name,
                                                argument_value(out, field_name))],
                argument_names, out, i + 1)

RECURSIVE do_derived_fields(_, _, _)
do_derived_fields(st, config, i) ==
    IF i > Len(config) THEN st
    ELSE LET f == config[i]
             built == build_args_dict([args |-> EmptyDict, missing |-> FALSE],
                                      f.argument_names, st.out, 1)
             err1 == IF built.missing THEN st.err \cup {f.name} ELSE st.err
             call == CallFunction(f.FUNCTION, built.args)
         IN do_derived_fields(
                IF f.config_type # "DERIVED" THEN st
                ELSE IF call.raised = ""
                THEN [st EXCEPT !.out = Put(st.out, f.name, call.value), !.err = err1]
                ELSE IF call.raised \in {"KeyError", "TypeError"}
                THEN [st EXCEPT !.out = Put(st.out, f.name, Null), !.err = err1 \cup {f.name}]
                ELSE [st EXCEPT !.out = Put(st.out, f.name, Null), !.err = err1],
                config, i + 1)

\* ---- Foreign Key -----------------------------------------------------------
\* 'RECONCILE FK': the marker written when the PKTable holds several values
RECONCILE_FK == IntV(-1)

foreign_key_value(pk, field_tag) ==
    IF Len(pk[field_tag]) = 1 THEN pk[field_tag][1] ELSE RECONCILE_FK

RECURSIVE do_foreign_key_fields(_, _, _)
do_foreign_key_fields(st, config, i) ==
    IF i > Len(config) THEN st
    ELSE LET f == config[i]
         IN do_foreign_key_fields(
                IF f.config_type # "FK" THEN st
                ELSE IF Len(st.pk[f.name]) > 0
                THEN [st EXCEPT !.out = Put(st.out, f.name, foreign_key_value(st.pk, f.name))]
                ELSE [st EXCEPT !.out = Put(st.out, f.name, Null),
                                !.err = st.err \cup {f.name}],
                config, i + 1)

\* ---- Priority --------------------------------------------------------------
\* priority_fields: target name -> [(field_key, rank)], in config order.
RECURSIVE priority_names(_, _, _)
priority_names(acc, config, i) ==
    IF i > Len(config) THEN acc
    ELSE priority_names(IF config[i].priority # <<>> /\ config[i].priority[1] \notin Range(acc)
                        THEN Append(acc, config[i].priority[1]) ELSE acc,
                        config, i + 1)

RECURSIVE priority_contents(_, _, _)
priority_contents(priority_name, config, i) ==
    IF i > Len(config) THEN <<>>
    ELSE (IF config[i].priority # <<>> /\ config[i].priority[1] = priority_name
          THEN << <<config[i].name, config[i].priority[2]>> >> ELSE <<>>)
         \o priority_contents(priority_name, config, i + 1)

\* sorted(priority_contents, key=lambda x: x[1]); Python's sort is stable.
RECURSIVE insert_by_rank(_, _)
insert_by_rank(pair, sorted_contents) ==
    IF sorted_contents = <<>> THEN <<pair>>
    ELSE IF pair[2] < sorted_contents[1][2] THEN <<pair>> \o sorted_contents
    ELSE <<sorted_contents[1]>> \o insert_by_rank(pair, Tail(sorted_contents))

RECURSIVE sorted_by_rank(_)
sorted_by_rank(contents) ==
    IF contents = <<>> THEN <<>>
    ELSE insert_by_rank(contents[Len(contents)],
                        sorted_by_rank(SubSeq(contents, 1, Len(contents) - 1)))

\* the first pair, in the order given, whose field holds a non-null value;
\* <<>> when there is none
RECURSIVE first_non_null(_, _)
first_non_null(contents, out) ==
    IF contents = <<>> THEN <<>>
    ELSE IF contents[1][1] \in DOMAIN out /\ out[contents[1][1]] # Null
    THEN <<out[contents[1][1]]>>
    ELSE first_non_null(Tail(contents), out)

\* (mutant of priority_choice: the fields are tried in declaration order)
priority_choice_as_declared(contents, out) == first_non_null(contents, out)

priority_choice(contents, out) == first_non_null(sorted_by_rank(contents), out)

\* (mutant of not_found_value: a 'default' declared on the target is used)
not_found_default(config, priority_name) ==
    LET declaring == {j \in DOMAIN config :
                         config[j].name = priority_name /\ config[j].default # <<>>}
    IN IF declaring # {} THEN config[CHOOSE j \in declaring : TRUE].default[1] ELSE Null

\* "relent and put a None if we didn't find anything"
not_found_value(config, priority_name) == Null

RECURSIVE choose_priority_fields(_, _, _, _)
choose_priority_fields(st, names, config, i) ==
    IF i > Len(names) THEN st
    ELSE LET found == priority_choice(priority_contents(names[i], config, 1), st.out)
             chosen == IF found # <<>> THEN found[1] ELSE not_found_value(config, names[i])
         IN choose_priority_fields(
                [st EXCEPT !.out = Put(st.out, names[i], chosen),
                           !.pk[names[i]] = Append(st.pk[names[i]], chosen)],
                names, config, i + 1)

do_priority_fields(st, config) ==
    choose_priority_fields(st, priority_names(<<>>, config, 1), config, 1)

\* ---- Hash ------------------------------------------------------------------
RECURSIVE value_list(_, _, _)
value_list(fields, out, i) ==
    IF i > Len(fields) THEN <<>>
    ELSE (IF fields[i] \in DOMAIN out THEN <<str(out[fields[i]])>> ELSE <<>>)
         \o value_list(fields, out, i + 1)

\* (mutant of hash_input: values of None are left out of the joined string)
hash_input_without_none(fields, out) ==
    join(SelectSeq(value_list(fields, out, 1), LAMBDA s : s # str(Null)))

hash_input(fields, out) == join(value_list(fields, out, 1))

RECURSIVE do_hash_fields(_, _, _)
do_hash_fields(st, config, i) ==
    IF i > Len(config) THEN st
    ELSE LET f == config[i]
             hash_value == create_hash(hash_input(f.fields, st.out))
         IN do_hash_fields(
                IF f.config_type # "HASH" THEN st
                ELSE [st EXCEPT !.out = Put(st.out, f.name, hash_value),
                                !.pk[f.name] = Append(st.pk[f.name], hash_value)],
                config, i + 1)

\* ---- ordering / pruning, domain routing, deduplication --------------------
\* The pruned record is the list of its (key, value) items, in output order.
RECURSIVE insert_by_order(_, _)
insert_by_order(f, ordered) ==
    IF ordered = <<>> THEN <<f>>
    ELSE IF f.order[1] < ordered[1].order[1] THEN <<f>> \o ordered
    ELSE <<ordered[1]>> \o insert_by_order(f, Tail(ordered))

RECURSIVE filtered_ordered_keys(_)
filtered_ordered_keys(config) ==
    IF config = <<>> THEN <<>>
    ELSE LET f == config[Len(config)]
             rest == filtered_ordered_keys(SubSeq(config, 1, Len(config) - 1))
         IN IF f.order # <<>> THEN insert_by_order(f, rest) ELSE rest

RECURSIVE items_of(_, _)
items_of(keys, out) ==
    IF keys = <<>> THEN <<>>
    ELSE (IF keys[1].name \in DOMAIN out THEN << <<keys[1].name, out[keys[1].name]>> >> ELSE <<>>)
         \o items_of(Tail(keys), out)

sort_output_and_omit_dict(out, config) == items_of(filtered_ordered_keys(config), out)

HeaderDomains == {StrV(Chars(n)) : n \in {"Person", "Location", "Care_Site", "Provider", "Visit"}}

\* (mutant of accepted: the header tables are routed by domain like the rest)
accepted_when_equal(out, expected_domain_id) ==
    LET domain_id == IF "domain_id" \in DOMAIN out THEN out["domain_id"] ELSE Null
    IN expected_domain_id = domain_id

accepted(out, expected_domain_id) ==
    LET domain_id == IF "domain_id" \in DOMAIN out THEN out["domain_id"] ELSE Null
    IN expected_domain_id = domain_id \/ expected_domain_id \in HeaderDomains

\* (mutant of row_tuple: the items are taken in the order the record lists them)
row_items(row) == row

\* row_tuple = tuple(sorted(row.items())): equal for rows with the same items
row_tuple(row) == Range(row)

RECURSIVE make_distinct(_)
make_distinct(rows) ==
    IF rows = <<>> THEN <<>>
    ELSE LET unique_rows == make_distinct(SubSeq(rows, 1, Len(rows) - 1))
             row == rows[Len(rows)]
         IN IF \E j \in DOMAIN unique_rows : row_tuple(unique_rows[j]) = row_tuple(row)
            THEN unique_rows ELSE Append(unique_rows, row)

(***************************************************************************)
(* Actions of the engine.                                                  *)
(***************************************************************************)
Filename == StrV(Chars("doc.xml"))

\* history: the pairs appended to the PKTable by a step
Appended(pk, pk2) ==
    UNION {{<<f, pk2[f][i]>> : i \in (Len(pk[f]) + 1)..Len(pk2[f])} : f \in FieldNames}

\* the engine's own variables while the classifier or the linker runs
idleEngineVars == <<doc, cfg, nroots, output_dict, pk_dict, error_fields_set,
                    output_list, phases, produced>>

IdleEngine ==
    /\ doc = 0 /\ cfg = 0 /\ nroots = 0
    /\ output_dict = EmptyDict /\ pk_dict = EmptyPK /\ error_fields_set = {}
    /\ output_list = <<>> /\ phases = <<>> /\ produced = {}

\* the classifier's locals before reclassify_nested_visit_occurrences_as_detail runs
IdleVisit ==
    /\ all_visits = <<>> /\ deduplicated_visits = <<>> /\ parent_visits = <<>>
    /\ visit_to_parent_map = EmptyDict /\ nested_visit_ids = {} /\ pending = {}
    /\ visit_id = Null /\ top_level_parent_id = Null /\ visit_detail_list = <<>>

\* the linker's locals before assign_visit_occurrence_ids_to_events runs
IdleLink == data_in = EmptyDict /\ cfg_i = 0 /\ thing_i = 0

\* no function is being called on its own
IdleCall == call_argument = Null /\ call_result = Null

Init ==
    /\ pc = "parse_doc" /\ doc = 1 /\ cfg = 0 /\ nroots = 0
    /\ output_dict = EmptyDict /\ pk_dict = EmptyPK /\ error_fields_set = {}
    /\ output_list = <<>> /\ omop_dict = EmptyDict /\ phases = <<>> /\ produced = {}
    /\ IdleVisit /\ IdleLink /\ IdleCall

\* (mutant of new_pk_dict: one PKTable kept for the whole run)
shared_pk_dict(old_pk_dict) == old_pk_dict

\* pk_dict = defaultdict(list), made anew for each document
new_pk_dict(old_pk_dict) == EmptyPK

\* parse_doc, up to the first config
parse_doc ==
    /\ pc = "parse_doc"
    /\ omop_dict' = EmptyDict
    /\ pk_dict' = new_pk_dict(pk_dict)
    /\ produced' = {}
    /\ cfg' = 1
    /\ pc' = "find_roots"
    /\ UNCHANGED <<doc, nroots, output_dict, error_fields_set, output_list, phases>>
    /\ UNCHANGED <<visitVars, linkVars, callVars>>

\* the loop of parse_doc over metadata.items(): on to the next config, or return
NextConfig(result) ==
    /\ omop_dict' = Put(omop_dict, Metadata[cfg].name, result)
    /\ IF cfg < Len(Metadata)
       THEN cfg' = cfg + 1 /\ pc' = "find_roots"
       ELSE cfg' = cfg /\ pc' = "return"

\* parse_config_from_xml_file: the root path matches no element
no_root_element ==
    /\ pc = "find_roots"
    /\ NextConfig(Null)
    /\ UNCHANGED <<doc, nroots, output_dict, pk_dict, error_fields_set, output_list,
                   phases, produced>>
    /\ UNCHANGED <<visitVars, linkVars, callVars>>

\* parse_config_from_xml_file: the root path matches; resolve the first element
first_root_element ==
    /\ pc = "find_roots"
    /\ output_list' = <<>>
    /\ error_fields_set' = {}
    /\ nroots' = 0
    /\ output_dict' = EmptyDict
    /\ phases' = <<>>
    /\ pc' = "do_none_fields"
    /\ UNCHANGED <<doc, cfg, pk_dict, omop_dict, produced>>
    /\ UNCHANGED <<visitVars, linkVars, callVars>>

\* one phase of parse_config_for_single_root
Phase(label, st, next) ==
    /\ output_dict' = st.out
    /\ pk_dict' = st.pk
    /\ error_fields_set' = st.err
    /\ produced' = produced \cup Appended(pk_dict, st.pk)
    /\ phases' = Append(phases, label)
    /\ pc' = next
    /\ UNCHANGED <<doc, cfg, nroots, output_list, omop_dict>>
    /\ UNCHANGED <<visitVars, linkVars, callVars>>

Current == PhaseState(output_dict, pk_dict, error_fields_set)

none_phase ==
    /\ pc = "do_none_fields"
    /\ Phase("None",
          [Current EXCEPT !.out = do_none_fields(output_dict, config_dict, 1)],
          "do_constant_fields")

constant_phase ==
    /\ pc = "do_constant_fields"
    /\ Phase("Constant",
          [Current EXCEPT !.out = do_constant_fields(output_dict, config_dict, 1)],
          "do_filename_fields")

filename_phase ==
    /\ pc = "do_filename_fields"
    /\ Phase("Filename",
          [Current EXCEPT !.out = do_filename_fields(output_dict, config_dict, Filename, 1)],
          "do_basic_fields")

basic_phase ==
    /\ pc = "do_basic_fields"
    /\ \E attrs \in RootValues(config_dict) :
        Phase("Basic", do_basic_fields(Current, config_dict, attrs, 1),
              "do_derived_fields")

\* (mutant of derived_phase: every non-null derived value is appended to the
\* PKTable under the field's name)
derived_phase_appending ==
    /\ pc = "do_derived_fields"
    /\ LET st == do_derived_fields(Current, config_dict, 1)
           derived == {config_dict[i].name :
                          i \in {j \in DOMAIN config_dict :
                                     config_dict[j].config_type = "DERIVED"}}
       IN Phase("Derived",
                [st EXCEPT !.pk = [f \in FieldNames |->
                                      IF f \in derived /\ st.out[f] # Null
                                      THEN Append(st.pk[f], st.out[f]) ELSE st.pk[f]]],
                "do_foreign_key_fields")

derived_phase ==
    /\ pc = "do_derived_fields"
    /\ Phase("Derived", do_derived_fields(Current, config_dict, 1),
          "do_foreign_key_fields")

foreign_key_phase ==
    /\ pc = "do_foreign_key_fields"
    /\ Phase("FK", do_foreign_key_fields(Current, config_dict, 1),
          "do_priority_fields")

priority_phase ==
    /\ pc = "do_priority_fields"
    /\ Phase("Priority", do_priority_fields(Current, config_dict),
          "do_hash_fields")

hash_phase ==
    /\ pc = "do_hash_fields"
    /\ Phase("Hash", do_hash_fields(Current, config_dict, 1), "route")

\* the end of parse_config_for_single_root and the append in the caller
routed_output_list ==
    IF accepted(output_dict, Metadata[cfg].expected_domain_id)
    THEN Append(output_list, sort_output_and_omit_dict(output_dict, config_dict))
    ELSE output_list

\* ... and the loop goes on to another root element
next_root_element ==
    /\ pc = "route"
    /\ nroots + 1 < MaxRoots
    /\ output_list' = routed_output_list
    /\ nroots' = nroots + 1
    /\ output_dict' = EmptyDict
    /\ phases' = <<>>
    /\ pc' = "do_none_fields"
    /\ UNCHANGED <<doc, cfg, pk_dict, error_fields_set, omop_dict, produced>>
    /\ UNCHANGED <<visitVars, linkVars, callVars>>

\* ... and this was the last root element: deduplicate and return the list
last_root_element ==
    /\ pc = "route"
    /\ NextConfig(ListV(make_distinct(routed_output_list)))
    /\ output_list' = routed_output_list
    /\ nroots' = nroots + 1
    /\ UNCHANGED <<doc, output_dict, pk_dict, error_fields_set, phases, produced>>
    /\ UNCHANGED <<visitVars, linkVars, callVars>>

\* process_file returns; main goes on to the next file
next_document ==
    /\ pc = "return"
    /\ doc < MaxDocs
    /\ doc' = doc + 1
    /\ pc' = "parse_doc"
    /\ UNCHANGED <<cfg, nroots, output_dict, pk_dict, error_fields_set, output_list,
                   omop_dict, phases, produced>>
    /\ UNCHANGED <<visitVars, linkVars, callVars>>

Next ==
    \/ parse_doc
    \/ no_root_element
    \/ first_root_element
    \/ none_phase
    \/ constant_phase
    \/ filename_phase
    \/ basic_phase
    \/ derived_phase
    \/ foreign_key_phase
    \/ priority_phase
    \/ hash_phase
    \/ next_root_element
    \/ last_root_element
    \/ next_document

Spec == Init /\ [][Next]_vars

(***************************************************************************)
(* Properties of the engine (specification Spec).                          *)
(***************************************************************************)
FKNames(config) ==
    {config[i].name : i \in {j \in DOMAIN config : config[j].config_type = "FK"}}

AfterFKPhase == pc = "do_priority_fields"

\* C1: for every root element the phases run in the order None, Constant,
\* Filename, Basic/PK, Derived, Derived2, Foreign Key, Priority, Hash; when the
\* record reaches domain routing, exactly these nine phases have run, in this
\* order.
C1_NinePhasesInOrder ==
    pc = "route" =>
        phases = <<"None", "Constant", "Filename", "Basic", "Derived", "Derived2",
                   "FK", "Priority", "Hash">>

\* C2: after the Foreign Key phase, every FK field holds the single PKTable
\* value if there is exactly one, Null (with the field in the ErrorFieldSet) if
\* there is none, and otherwise a marker that is neither Null nor any of the
\* values in the PKTable list.
C2_ForeignKeyThreeCases ==
    AfterFKPhase =>
        \A f \in FKNames(config_dict) :
            /\ Len(pk_dict[f]) = 1 => output_dict[f] = pk_dict[f][1]
            /\ Len(pk_dict[f]) = 0 => output_dict[f] = Null /\ f \in error_fields_set
            /\ Len(pk_dict[f]) > 1 =>
                   output_dict[f] # Null /\ output_dict[f] \notin Range(pk_dict[f])

\* C3: the PKTable is append-only within a document (every list is a prefix of
\* its later self), every document starts from the empty PKTable, and a value
\* copied by the Foreign Key phase was appended while processing the same
\* document.
C3_CopiedInThisDocument ==
    AfterFKPhase =>
        \A f \in FKNames(config_dict) :
            Len(pk_dict[f]) = 1 => <<f, output_dict[f]>> \in produced

C3_PKTableAppendOnlyPerDocument ==
    [][/\ pc = "parse_doc" => pk_dict' = EmptyPK
       /\ pc # "parse_doc" => \A f \in FieldNames : IsPrefix(pk_dict[f], pk_dict'[f])
       /\ C3_CopiedInThisDocument']_vars

\* a second document copies, as FK, a value its own Visit config produced,
\* after the first document filled the PKTable too
C3_Witness ==
    /\ doc = 2 /\ cfg = 3 /\ AfterFKPhase
    /\ Len(pk_dict["visit_occurrence_id"]) = 1
    /\ output_dict["visit_occurrence_id"] = pk_dict["visit_occurrence_id"][1]
    /\ output_dict["visit_occurrence_id"] # Null
    /\ Len(pk_dict["person_id"]) = 2

(***************************************************************************)
(* Properties of the engine, continued (specification Spec).               *)
(***************************************************************************)
\* the domain_id the record holds when it reaches routing, None when absent
ComputedDomainId ==
    IF "domain_id" \in DOMAIN output_dict THEN output_dict["domain_id"] ELSE Null

ExpectedDomainId == Metadata[cfg].expected_domain_id

NonRoutedTables ==
    {StrV(Chars("Person")), StrV(Chars("Location")), StrV(Chars("Care_Site")),
     StrV(Chars("Provider")), StrV(Chars("Visit"))}

RoutingAccepts ==
    ComputedDomainId = ExpectedDomainId \/ ExpectedDomainId \in NonRoutedTables

\* the items of a pruned record are items of the resolved record
RecordOf(row, out) ==
    \A i \in DOMAIN row : row[i][1] \in DOMAIN out /\ row[i][2] = out[row[i][1]]

\* C11: domain routing.  When a resolved record reaches routing, it is
\* returned and appended to the config's output list if and only if its
\* computed domain_id (Null when absent) equals the root's expected_domain_id
\* or the expected_domain_id is one of Person, Location, Care_Site, Provider,
\* Visit; otherwise the output list is left as it was, so the rejected row is
\* in no list the config returns.
C11_DomainRouting ==
    [][pc = "route" =>
        /\ RoutingAccepts =>
              /\ Len(output_list') = Len(output_list) + 1
              /\ SubSeq(output_list', 1, Len(output_list)) = output_list
              /\ RecordOf(output_list'[Len(output_list')], output_dict)
        /\ ~RoutingAccepts => output_list' = output_list
        /\ pc' # "do_none_fields" =>
              /\ omop_dict'[Metadata[cfg].name].k = "list"
              /\ Range(omop_dict'[Metadata[cfg].name].v) = Range(output_list')]_vars

\* a Measurement root whose code maps to the Drug domain was rejected: the
\* config returned an empty list, after the Person config returned a row
C11_Witness ==
    /\ pc = "return"
    /\ omop_dict["Measurement"] = ListV(<<>>)
    /\ ComputedDomainId = StrV(Chars("Drug"))
    /\ omop_dict["Person"] # Null /\ Len(omop_dict["Person"].v) > 0

\* the fields of a config that declare an order, and the order they declare
OrderedNames(config) ==
    {config[i].name : i \in {j \in DOMAIN config : config[j].order # <<>>}}

OrderOf(config, name) ==
    config[CHOOSE i \in DOMAIN config : config[i].name = name].order[1]

PrunedTo(row, config) ==
    /\ {row[i][1] : i \in DOMAIN row} = OrderedNames(config)
    /\ Len(row) = Cardinality(OrderedNames(config))
    /\ \A i, j \in DOMAIN row :
          i < j => OrderOf(config, row[i][1]) < OrderOf(config, row[j][1])

\* C12: every accepted record a config returns contains exactly the fields of
\* the config that declare an order, no more and no fewer, whatever their
\* config_type, in ascending order of order; fields without order are absent.
C12_PrunedToOrderedFields ==
    \A c \in DOMAIN Metadata :
        (Metadata[c].name \in DOMAIN omop_dict /\ omop_dict[Metadata[c].name] # Null) =>
            \A r \in DOMAIN omop_dict[Metadata[c].name].v :
                PrunedTo(omop_dict[Metadata[c].name].v[r], Metadata[c].fields)

\* priority groups of a config: the targets, the fields of a target, and
\* whether a field of the group holds a non-null value in the record
PriorityTargets(config) ==
    {config[i].priority[1] : i \in {j \in DOMAIN config : config[j].priority # <<>>}}

GroupOf(config, target) ==
    {i \in DOMAIN config : config[i].priority # <<>> /\ config[i].priority[1] = target}

HoldsValue(config, i) ==
    config[i].name \in DOMAIN output_dict /\ output_dict[config[i].name] # Null

AtPriorityPhase == pc = "do_priority_fields"

\* C13: priority phase selection.  For each target name with a field of its
\* group holding a non-null value, the phase writes under the target the value
\* of the lowest-rank field of the group whose value is non-null (null values
\* at lower ranks are skipped), and appends that value to PKTable[target].
C13_PrioritySelection ==
    [][AtPriorityPhase =>
        \A t \in PriorityTargets(config_dict) :
            (\E i \in GroupOf(config_dict, t) : HoldsValue(config_dict, i)) =>
                \E i \in GroupOf(config_dict, t) :
                    /\ HoldsValue(config_dict, i)
                    /\ \A j \in GroupOf(config_dict, t) :
                          HoldsValue(config_dict, j) =>
                              config_dict[i].priority[2] <= config_dict[j].priority[2]
                    /\ output_dict'[t] = output_dict[config_dict[i].name]
                    /\ pk_dict'[t] = Append(pk_dict[t], output_dict[config_dict[i].name])]_vars

\* the field of rank 1 is null and the field of rank 2, declared first, holds
\* 2: the target holds 2 and 2 is the last value of PKTable[person_id]
C13_Witness ==
    /\ pc = "do_hash_fields" /\ cfg = 1
    /\ output_dict["person_id_ssn"] = Null
    /\ output_dict["person_id_other"] = IntV(2)
    /\ output_dict["person_id"] = IntV(2)
    /\ Len(pk_dict["person_id"]) > 0
    /\ pk_dict["person_id"][Len(pk_dict["person_id"])] = IntV(2)

AfterPriorityPhase == pc = "do_hash_fields"

\* no field of the group of a target holds a non-null value
GroupIsNull(config, target) ==
    \A i \in GroupOf(config, target) : ~HoldsValue(config, i)

\* the default a config declares for a target, <<>> when it declares none
DeclaredDefault(config, target) ==
    LET declaring == {j \in DOMAIN config :
                         config[j].name = target /\ config[j].default # <<>>}
    IN IF declaring # {} THEN config[CHOOSE j \in declaring : TRUE].default ELSE <<>>

\* C14 (as stated): priority phase fallback.  When no field of a priority
\* group has a non-null value, the target is set to the group's declared
\* default if one is declared, and to Null only if none is declared.
C14_FallbackToDeclaredDefault ==
    AfterPriorityPhase =>
        \A t \in PriorityTargets(config_dict) :
            GroupIsNull(config_dict, t) =>
                output_dict[t] = IF DeclaredDefault(config_dict, t) # <<>>
                                 THEN DeclaredDefault(config_dict, t)[1] ELSE Null

\* C14 (amended): priority phase fallback.  When no field of a priority group
\* has a non-null value, the target is set to Null, whether or not the group
\* declares a default.
C14_FallbackToNull ==
    AfterPriorityPhase =>
        \A t \in PriorityTargets(config_dict) :
            GroupIsNull(config_dict, t) => output_dict[t] = Null

\* both identifiers of a Person root are null, the target declares a default,
\* and the priority phase has written the target
C14_Witness ==
    /\ AfterPriorityPhase /\ cfg = 1
    /\ GroupIsNull(config_dict, "person_id")
    /\ DeclaredDefault(config_dict, "person_id") # <<>>
    /\ "person_id" \in DOMAIN output_dict /\ output_dict["person_id"] = Null

HashFields(config) == {i \in DOMAIN config : config[i].config_type = "HASH"}

\* the strings of a sequence, each after the first preceded by a bar
RECURSIVE BarJoined(_)
BarJoined(strs) ==
    IF Len(strs) = 0 THEN <<>>
    ELSE IF Len(strs) = 1 THEN strs[1]
    ELSE BarJoined(SubSeq(strs, 1, Len(strs) - 1)) \o <<"|">> \o strs[Len(strs)]

\* the stringified values the record holds for all the declared fields
Stringified(fields, out) == [i \in DOMAIN fields |-> str(out[fields[i]])]

AtHashPhase == pc = "do_hash_fields"

\* C15: hash phase.  For every Hash field the phase stores the Hasher's value
\* of the stringified, already-resolved values of all its declared fields,
\* joined by "|" in declared order, and appends that same value to the PKTable
\* under the hash field's name.
C15_HashOfJoinedFields ==
    [][AtHashPhase =>
        \A i \in HashFields(config_dict) :
            /\ output_dict'[config_dict[i].name] =
                   create_hash(BarJoined(Stringified(config_dict[i].fields, output_dict)))
            /\ pk_dict'[config_dict[i].name] =
                   Append(pk_dict[config_dict[i].name], output_dict'[config_dict[i].name])]_vars

\* a Measurement root with a person, no provider and a code has its key
\* hashed from three values, one of them None, and the key is in the PKTable
C15_Witness ==
    /\ pc = "route" /\ cfg = 3
    /\ output_dict["person_id"] # Null
    /\ output_dict["provider_id"] = Null
    /\ output_dict["measurement_concept_code"] # Null
    /\ output_dict["measurement_id"] # Null
    /\ Len(pk_dict["measurement_id"]) > 0
    /\ pk_dict["measurement_id"][Len(pk_dict["measurement_id"])] = output_dict["measurement_id"]

DerivedFields(config) == {i \in DOMAIN config : config[i].config_type = "DERIVED"}

AtDerivedPhase == pc = "do_derived_fields"

\* an argument of a derived field, other than 'default', names a field the
\* record in progress does not hold
ArgumentMissing(config, i) ==
    \E a \in DOMAIN config[i].argument_names :
        /\ config[i].argument_names[a][1] # "default"
        /\ config[i].argument_names[a][2] \notin DOMAIN output_dict

\* the registered function of a derived field fails on the arguments the
\* record in progress gives it, with an error of whatever kind
FunctionFails(config, i) ==
    CallFunction(config[i].FUNCTION,
                 build_args_dict([args |-> EmptyDict, missing |-> FALSE],
                                 config[i].argument_names, output_dict, 1).args).raised # ""

\* C17: Derived phase failure policy.  Whenever an argument named in
\* argument_names is missing from the record in progress, or the registered
\* function fails with any kind of error, the derived field is set to Null and
\* its name is added to the ErrorFieldSet, and the row goes on to the
\* remaining phases.
C17_DerivedFailurePolicy ==
    [][AtDerivedPhase =>
        /\ pc' = "do_foreign_key_fields"
        /\ \A i \in DerivedFields(config_dict) :
              (ArgumentMissing(config_dict, i) \/ FunctionFails(config_dict, i)) =>
                  /\ output_dict'[config_dict[i].name] = Null
                  /\ config_dict[i].name \in error_fields_set']_vars

AtBasicPhase == pc = "do_basic_fields"

AtForeignKeyPhase == pc = "do_foreign_key_fields"

\* the phases that resolve fields from the document, the registry or the
\* PKTable, each with the phase that follows it
ResolutionSteps ==
    {<<"do_basic_fields", "do_derived_fields">>,
     <<"do_derived_fields", "do_foreign_key_fields">>,
     <<"do_foreign_key_fields", "do_priority_fields">>}

\* C18: every field-level resolution error leaves the field Null and adds the
\* field name to the ErrorFieldSet, and never prevents the row from being
\* produced: a FIELD or PK whose source element or attribute is missing, a
\* derived field whose function fails, and an FK with no value or with several
\* values in the PKTable.
C18_ErrorsLeaveNullAndEntry ==
    [][/\ AtBasicPhase =>
            \A f \in BasicNames(config_dict) :
                output_dict'[f] = Null => f \in error_fields_set'
       /\ AtDerivedPhase =>
            \A i \in DerivedFields(config_dict) :
                FunctionFails(config_dict, i) =>
                    /\ output_dict'[config_dict[i].name] = Null
                    /\ config_dict[i].name \in error_fields_set'
       /\ AtForeignKeyPhase =>
            \A f \in FKNames(config_dict) :
                Len(pk_dict[f]) # 1 =>
                    output_dict'[f] = Null /\ f \in error_fields_set'
       /\ \A step \in ResolutionSteps : pc = step[1] => pc' = step[2]]_vars

\* the field names some config after the current one consumes as FK
LaterFKNames ==
    UNION {FKNames(Metadata[c].fields) : c \in {d \in DOMAIN Metadata : d > cfg}}

BoundArguments(f, out) ==
    {a \in DOMAIN f.argument_names :
        f.argument_names[a][1] = "default" \/ f.argument_names[a][2] \in DOMAIN out}

\* the argument map of a derived field over a record: 'default' with its
\* literal, every other key with the value of the field it names
ArgumentMap(f, out) ==
    [key \in {f.argument_names[a][1] : a \in BoundArguments(f, out)} |->
        LET a == CHOOSE b \in BoundArguments(f, out) : f.argument_names[b][1] = key
        IN  IF key = "default" THEN f.argument_names[a][2]
            ELSE out[f.argument_names[a][2]]]

\* C27: Derived phase argument passing.  For every derived field the
\* registered function is called with an argument map in which each key of
\* argument_names other than 'default' is bound to the current value of the
\* output field it names (not to the name of the field) and 'default' to its
\* literal, and what the function returns is stored under the name of the
\* derived field.
C27_DerivedArgumentPassing ==
    [][AtDerivedPhase =>
        \A i \in DerivedFields(config_dict) :
            LET call == CallFunction(config_dict[i].FUNCTION,
                                     ArgumentMap(config_dict[i], output_dict))
            IN  call.raised = "" => output_dict'[config_dict[i].name] = call.value]_vars

\* the derived phase of a Measurement is over: the concept id 1 is the one
\* mapped to the code "x" the record holds, and the domain is the domain of
\* that code
C27_Witness ==
    /\ pc = "do_foreign_key_fields"
    /\ "measurement_concept_id" \in DOMAIN output_dict
    /\ output_dict["measurement_concept_code"] = StrV(Chars("x"))
    /\ output_dict["measurement_concept_id"] = IntV(1)
    /\ output_dict["domain_id"] = StrV(Chars("Measurement"))

\* the names a config appends to the PKTable under: its PK fields, its hash
\* fields and the targets of its priority groups
KeyNames(config) ==
    {config[i].name : i \in {j \in DOMAIN config : config[j].config_type \in {"PK", "HASH"}}}
        \cup PriorityTargets(config)

\* when a root element has been resolved, every name of the config holds one
\* entry for it and one for each root element resolved before it
OneEntryPerRootElement ==
    pc = "route" =>
        \A name \in KeyNames(config_dict) : Len(pk_dict[name]) = nroots + 1

\* neither domain routing nor the removal of duplicates takes an entry back
RoutingKeepsEntries == pc = "route" => pk_dict' = pk_dict

\* C29 as stated: while one config is resolved, PKTable[name] grows by
\* exactly one entry per matched root element for every name that is a PK
\* field, a hash field or a priority target of the config, also when the entry
\* is Null, when the row is rejected by domain routing and when it is removed
\* as a duplicate; hence a later FK on the name copies a value only if exactly
\* one root element was resolved for it, and gets the unresolved marker
\* otherwise, even if all entries are equal.
C29_MarkerUnlessOneRootElement ==
    [][/\ OneEntryPerRootElement'
       /\ RoutingKeepsEntries
       /\ AtForeignKeyPhase =>
              \A f \in FKNames(config_dict) :
                  IF Len(pk_dict[f]) = 1 THEN output_dict'[f] = pk_dict[f][1]
                  ELSE output_dict'[f] = RECONCILE_FK]_vars

\* C29, amended: the same growth of the PKTable; a later FK on the name
\* copies a value only if exactly one root element was resolved for it, gets
\* the unresolved marker if more than one was, even if all entries are equal,
\* and Null if none was.
C29_OneEntryPerRootElement ==
    [][/\ OneEntryPerRootElement'
       /\ RoutingKeepsEntries
       /\ AtForeignKeyPhase =>
              \A f \in FKNames(config_dict) :
                  IF Len(pk_dict[f]) = 1 THEN output_dict'[f] = pk_dict[f][1]
                  ELSE IF Len(pk_dict[f]) > 1 THEN output_dict'[f] = RECONCILE_FK
                  ELSE output_dict'[f] = Null]_vars

\* two Person elements were resolved to the same person_id and one of the two
\* rows was removed as a duplicate; both entries are in the PKTable, and the
\* person_id of a Measurement is the marker
C29_Witness ==
    /\ cfg = 3 /\ AfterFKPhase
    /\ Len(pk_dict["person_id"]) = 2
    /\ pk_dict["person_id"][1] = pk_dict["person_id"][2]
    /\ pk_dict["person_id"][1] # Null
    /\ Len(omop_dict["Person"].v) = 1
    /\ output_dict["person_id"] = RECONCILE_FK

(***************************************************************************)
(* Dates and datetimes of visit_reconcilliation.py.  A datetime is its     *)
(* wall-clock reading t, in seconds from midnight of day 0, with its       *)
(* tzinfo; a date is its day number.                                       *)
(***************************************************************************)
SecondsPerDay == 86400

DateV(d) == [k |-> "date", d |-> d]

DateTimeV(t, tz) == [k |-> "datetime", t |-> t, tz |-> tz]

\* the naive datetime s seconds after midnight of day d
At(d, s) == DateTimeV(d * SecondsPerDay + s, "naive")

\* isinstance(x, datetime.datetime); isinstance(x, datetime.date) also holds of
\* a datetime, which is a subclass of date
is_datetime(x) == x.k = "datetime"

is_date(x) == x.k \in {"date", "datetime"}

\* dt.replace(tzinfo=None) keeps the wall-clock reading
strip_tz(dt) ==
    IF is_datetime(dt) /\ dt.tz # "naive" THEN DateTimeV(dt.t, "naive") ELSE dt

\* a <= b on two naive datetimes or on two dates
le(a, b) == IF is_datetime(a) THEN a.t <= b.t ELSE a.d <= b.d

\* a duration in days is kept as its number of seconds, num / 86400 days
\* (total_seconds() / 86400; the float division is exact enough to keep
\* distinct whole seconds apart in this range)
Days(num) == [k |-> "days", num |-> num]

\* visit_dict.get(key)
get(d, key) == IF key \in DOMAIN d THEN d[key] ELSE Null

Remove(d, key) == [x \in (DOMAIN d) \ {key} |-> d[x]]

INPATIENT_CONCEPT_IDS == {IntV(9201)}

MAX_PARENT_DURATION_DAYS == 367

get_visit_duration_days(visit_dict) ==
    LET has == "visit_start_datetime" \in DOMAIN visit_dict
                 /\ "visit_end_datetime" \in DOMAIN visit_dict
        start_key == IF has THEN "visit_start_datetime" ELSE "visit_start_date"
        end_key == IF has THEN "visit_end_datetime" ELSE "visit_end_date"
        start0 == get(visit_dict, start_key)
        end0 == get(visit_dict, end_key)
    IN  IF start0 = Null \/ end0 = Null THEN Null
        ELSE LET start == strip_tz(start0)
                 end == strip_tz(end0)
             IN  IF is_datetime(start) /\ is_datetime(end) THEN Days(end.t - start.t)
                 ELSE IF is_date(start) /\ is_date(end)
                      THEN Days((end.d - start.d) * SecondsPerDay)
                 ELSE Null

\* the test of identify_inpatient_parents on one visit
eligible_parent(visit) ==
    /\ get(visit, "visit_concept_id") \in INPATIENT_CONCEPT_IDS
    /\ get_visit_duration_days(visit) # Null
    /\ get_visit_duration_days(visit).num < MAX_PARENT_DURATION_DAYS * SecondsPerDay

identify_inpatient_parents(visit_list) ==
    SelectSeq(visit_list, LAMBDA visit : eligible_parent(visit))

\* (mutant of is_temporally_contained: a parent must start before its child)
is_contained_after_start(child_dict, parent_dict) ==
    LET has == "visit_start_datetime" \in DOMAIN child_dict
                 /\ "visit_end_datetime" \in DOMAIN child_dict
        start_key == IF has THEN "visit_start_datetime" ELSE "visit_start_date"
        end_key == IF has THEN "visit_end_datetime" ELSE "visit_end_date"
        child_start == get(child_dict, start_key)
        child_end == get(child_dict, end_key)
        parent_start == get(parent_dict, start_key)
        parent_end == get(parent_dict, end_key)
    IN  IF Null \in {child_start, child_end, parent_start, parent_end} THEN FALSE
        ELSE /\ le(strip_tz(parent_start), strip_tz(child_start))
             /\ strip_tz(parent_start) # strip_tz(child_start)
             /\ le(strip_tz(child_end), strip_tz(parent_end))

is_temporally_contained(child_dict, parent_dict) ==
    LET has == "visit_start_datetime" \in DOMAIN child_dict
                 /\ "visit_end_datetime" \in DOMAIN child_dict
        start_key == IF has THEN "visit_start_datetime" ELSE "visit_start_date"
        end_key == IF has THEN "visit_end_datetime" ELSE "visit_end_date"
        child_start == get(child_dict, start_key)
        child_end == get(child_dict, end_key)
        parent_start == get(parent_dict, start_key)
        parent_end == get(parent_dict, end_key)
    IN  IF Null \in {child_start, child_end, parent_start, parent_end} THEN FALSE
        ELSE /\ le(strip_tz(parent_start), strip_tz(child_start))
             /\ le(strip_tz(child_end), strip_tz(parent_end))

\* the loop of lines 229-237: the first parent of least duration
RECURSIVE shortest_parent(_, _, _, _)
shortest_parent(containing_parents, i, min_duration, most_specific_parent) ==
    IF i > Len(containing_parents) THEN most_specific_parent
    ELSE LET duration == get_visit_duration_days(containing_parents[i])
         IN  IF duration # Null /\ (min_duration = Null \/ duration.num < min_duration.num)
             THEN shortest_parent(containing_parents, i + 1, duration, containing_parents[i])
             ELSE shortest_parent(containing_parents, i + 1, min_duration,
                                  most_specific_parent)

\* (mutant of find_most_specific_parent: the sibling check is left out)
find_parent_among_siblings(child_dict, potential_parents) ==
    LET containing_parents ==
            SelectSeq(potential_parents, LAMBDA parent :
                /\ get(parent, "person_id") = get(child_dict, "person_id")
                /\ get(parent, "visit_occurrence_id") # get(child_dict, "visit_occurrence_id")
                /\ is_temporally_contained(child_dict, parent))
        most_specific_parent == shortest_parent(containing_parents, 1, Null, Null)
    IN  IF containing_parents = <<>> \/ most_specific_parent = Null THEN Null
        ELSE get(most_specific_parent, "visit_occurrence_id")

find_most_specific_parent(child_dict, potential_parents) ==
    LET containing_parents ==
            SelectSeq(potential_parents, LAMBDA parent :
                /\ get(parent, "person_id") = get(child_dict, "person_id")
                /\ get(parent, "visit_occurrence_id") # get(child_dict, "visit_occurrence_id")
                /\ is_temporally_contained(child_dict, parent))
        siblings ==
            \E i \in DOMAIN containing_parents : \E j \in DOMAIN containing_parents :
                /\ i < j
                /\ ~is_temporally_contained(containing_parents[j], containing_parents[i])
                /\ ~is_temporally_contained(containing_parents[i], containing_parents[j])
        most_specific_parent == shortest_parent(containing_parents, 1, Null, Null)
    IN  IF potential_parents = <<>> \/ containing_parents = <<>> THEN Null
        ELSE IF siblings THEN Null
        ELSE IF most_specific_parent = Null THEN Null
        ELSE get(most_specific_parent, "visit_occurrence_id")

field_mapping ==
    << <<"visit_occurrence_id", "visit_detail_id">>,
       <<"person_id", "person_id">>,
       <<"visit_concept_id", "visit_detail_concept_id">>,
       <<"visit_start_date", "visit_detail_start_date">>,
       <<"visit_start_datetime", "visit_detail_start_datetime">>,
       <<"visit_end_date", "visit_detail_end_date">>,
       <<"visit_end_datetime", "visit_detail_end_datetime">>,
       <<"visit_type_concept_id", "visit_detail_type_concept_id">>,
       <<"provider_id", "provider_id">>,
       <<"care_site_id", "care_site_id">>,
       <<"visit_source_value", "visit_detail_source_value">>,
       <<"visit_source_concept_id", "visit_detail_source_concept_id">>,
       <<"admitting_source_value", "admitting_source_value">>,
       <<"admitting_source_concept_id", "admitting_source_concept_id">>,
       <<"discharge_to_source_value", "discharge_to_source_value">>,
       <<"discharge_to_concept_id", "discharge_to_concept_id">>,
       <<"filename", "filename">>,
       <<"cfg_name", "cfg_name">> >>

create_visit_detail_record(visit_dict, top_level_parent_id_, immediate_parent_id) ==
    LET copied == {i \in DOMAIN field_mapping : field_mapping[i][1] \in DOMAIN visit_dict}
        src_field(dest) ==
            field_mapping[CHOOSE i \in copied : field_mapping[i][2] = dest][1]
        parent_fields == {"visit_occurrence_id", "visit_detail_parent_id",
                          "preceding_visit_detail_id"}
    IN  [f \in {field_mapping[i][2] : i \in copied} \cup parent_fields |->
            IF f = "visit_occurrence_id" THEN top_level_parent_id_
            ELSE IF f = "visit_detail_parent_id" THEN immediate_parent_id
            ELSE IF f = "preceding_visit_detail_id" THEN Null
            ELSE visit_dict[src_field(f)]]

\* 'name' in omop_dict and omop_dict['name']: present, not None, not empty
has_rows(d, name) == name \in DOMAIN d /\ d[name] # Null /\ d[name].v # <<>>

\* Step 1: the visits of both configs, 'Visit' first
collected_visits(d) ==
    (IF has_rows(d, "Visit") THEN d["Visit"].v ELSE <<>>)
    \o (IF has_rows(d, "Visit_encompassingEncounter")
        THEN d["Visit_encompassingEncounter"].v ELSE <<>>)

position_of(visits, id) ==
    CHOOSE p \in DOMAIN visits : get(visits[p], "visit_occurrence_id") = id

\* (mutant of keep_visit: the later record of an id always replaces the earlier)
keep_later(existing, visit) == TRUE

\* line 349: a 'Visit' record replaces a 'Visit_encompassingEncounter' record
keep_visit(existing, visit) ==
    /\ get(existing, "cfg_name") = StrV(Chars("Visit_encompassingEncounter"))
    /\ get(visit, "cfg_name") = StrV(Chars("Visit"))

\* Step 2: visit_map keeps one record per id, at the place of its first record
RECURSIVE deduplicate_visits(_, _, _)
deduplicate_visits(visits, i, visit_map) ==
    IF i > Len(visits) THEN visit_map
    ELSE LET visit == visits[i]
             id == get(visit, "visit_occurrence_id")
             seen == \E p \in DOMAIN visit_map :
                        get(visit_map[p], "visit_occurrence_id") = id
             p == position_of(visit_map, id)
         IN  IF ~seen THEN deduplicate_visits(visits, i + 1, Append(visit_map, visit))
             ELSE IF keep_visit(visit_map[p], visit)
                  THEN deduplicate_visits(visits, i + 1, [visit_map EXCEPT ![p] = visit])
             ELSE deduplicate_visits(visits, i + 1, visit_map)

\* the loop of lines 378-387
RECURSIVE parent_map_of(_, _, _, _)
parent_map_of(visits, parents, i, map) ==
    IF i > Len(visits) THEN map
    ELSE LET most_specific_parent_id == find_most_specific_parent(visits[i], parents)
         IN  IF most_specific_parent_id # Null
             THEN parent_map_of(visits, parents, i + 1,
                     Put(map, get(visits[i], "visit_occurrence_id"),
                         most_specific_parent_id))
             ELSE parent_map_of(visits, parents, i + 1, map)

\* (mutant of parent_reference: the immediate parent is always written)
parent_reference_always(immediate_parent_id, nested_parent_ids) == immediate_parent_id

\* lines 410-415: the visit_detail_parent_id of a nested visit
parent_reference(immediate_parent_id, nested_parent_ids) ==
    IF immediate_parent_id \in nested_parent_ids THEN immediate_parent_id ELSE Null

\* (mutant of final_visits: the nested visits stay in the list)
final_visits_all(visits, nested) == visits

\* Step 6: the visits that were not nested
final_visits(visits, nested) ==
    SelectSeq(visits, LAMBDA v : get(v, "visit_occurrence_id") \notin nested)

(***************************************************************************)
(* Inputs of the classifier: the 'Visit' and 'Visit_encompassingEncounter' *)
(* lists parse_doc can return.  Every row has the columns of the Visit     *)
(* table; its date columns hold the day of its datetime columns, both      *)
(* being read from the same element of the document.                       *)
(***************************************************************************)
MaxVisits == 3

MaxLoopVisits == 2

date_of(x) == IF x = Null THEN Null ELSE DateV(x.t \div SecondsPerDay)

MakeVisit(id, person, concept, start, end, cfg_name) ==
    [visit_occurrence_id |-> IntV(id), person_id |-> IntV(person),
     visit_concept_id |-> IntV(concept),
     visit_start_date |-> date_of(start), visit_start_datetime |-> start,
     visit_end_date |-> date_of(end), visit_end_datetime |-> end,
     cfg_name |-> StrV(Chars(cfg_name))]

\* <<person, concept, start, end>>: inpatient (9201) and outpatient (9202)
\* visits of two persons, nested, overlapping, equal, one of exactly 367 days,
\* one a second short of it, one without a start, one with a timezone, one
\* of no duration
VisitShapes ==
    { <<1, 9201, At(0, 0), At(3, 0)>>,
      <<1, 9201, At(1, 0), At(2, 0)>>,
      <<1, 9201, At(0, 0), At(2, 0)>>,
      <<1, 9201, At(1, 0), At(3, 0)>>,
      <<1, 9201, At(0, 0), At(367, 0)>>,
      <<1, 9201, At(0, 0), At(366, 86399)>>,
      <<1, 9201, Null, At(2, 0)>>,
      <<1, 9201, DateTimeV(SecondsPerDay, "utc"), DateTimeV(2 * SecondsPerDay, "utc")>>,
      <<1, 9202, At(0, 0), At(3, 0)>>,
      <<1, 9202, At(1, 0), At(2, 0)>>,
      <<1, 9202, At(1, 3600), At(1, 3600)>>,
      <<2, 9201, At(0, 0), At(3, 0)>> }

\* the i-th of n rows, the first k of them from the 'Visit' config; a row
\* repeats the id of the first row or has an id of its own
InputRow(i, k, shape, dup) ==
    MakeVisit(IF dup[i] THEN 1 ELSE i, shape[i][1], shape[i][2], shape[i][3], shape[i][4],
              IF i <= k THEN "Visit" ELSE "Visit_encompassingEncounter")

InputRows(n, k, shape, dup) == [i \in 1..n |-> InputRow(i, k, shape, dup)]

\* make_distinct has removed the repeated records of each config
Distinct(rows) == \A i \in DOMAIN rows : \A j \in DOMAIN rows : i < j => rows[i] # rows[j]

\* a config without rows holds None; the encompassing-encounter config may be absent
ConfigValue(rows) == IF rows = <<>> THEN Null ELSE ListV(rows)

InputDict(rows, k, ee) ==
    IF ee
    THEN [name \in {"Visit", "Visit_encompassingEncounter"} |->
            IF name = "Visit" THEN ConfigValue(SubSeq(rows, 1, k))
            ELSE ConfigValue(SubSeq(rows, k + 1, Len(rows)))]
    ELSE [name \in {"Visit"} |-> ConfigValue(rows)]

InitVisitUpTo(max) ==
    /\ pc = "reclassify"
    /\ \E n \in 0..max : \E k \in 0..n :
       \E shape \in [1..n -> VisitShapes] : \E dup \in [1..n -> BOOLEAN] :
       \E ee \in BOOLEAN :
          /\ n > 0 => ~dup[1]
          /\ k < n => ee
          /\ Distinct(SubSeq(InputRows(n, k, shape, dup), 1, k))
          /\ Distinct(SubSeq(InputRows(n, k, shape, dup), k + 1, n))
          /\ omop_dict = InputDict(InputRows(n, k, shape, dup), k, ee)
    /\ IdleEngine /\ IdleVisit /\ IdleLink /\ IdleCall

\* the document of the sibling scenario: V1 (01-01..01-10), V2 (01-02..01-03)
\* and V2b (01-02..01-04), inpatient visits of one person, and V4
\* (01-02T10:00..01-02T11:00); day 1 is 01-01
SiblingScenario ==
    << MakeVisit(1, 1, 9201, At(1, 0), At(10, 0), "Visit"),
       MakeVisit(2, 1, 9201, At(2, 0), At(3, 0), "Visit"),
       MakeVisit(3, 1, 9201, At(2, 0), At(4, 0), "Visit"),
       MakeVisit(4, 1, 9202, At(2, 36000), At(2, 39600), "Visit") >>

InitScenario ==
    /\ pc = "reclassify"
    /\ omop_dict = InputDict(SiblingScenario, 4, FALSE)
    /\ IdleEngine /\ IdleVisit /\ IdleLink /\ IdleCall

InitVisit == InitVisitUpTo(MaxVisits) \/ InitScenario

(***************************************************************************)
(* Actions of reclassify_nested_visit_occurrences_as_detail.               *)
(***************************************************************************)
\* lines 331-333: nothing to process
no_visit_data ==
    /\ pc = "reclassify"
    /\ collected_visits(omop_dict) = <<>>
    /\ pc' = "returned"
    /\ UNCHANGED <<omop_dict, visitVars, idleEngineVars, linkVars, callVars>>

\* lines 336-339: one visit, no hierarchy
only_one_visit ==
    /\ pc = "reclassify"
    /\ Len(collected_visits(omop_dict)) = 1
    /\ all_visits' = collected_visits(omop_dict)
    /\ omop_dict' = Put(omop_dict, "Visit", ListV(collected_visits(omop_dict)))
    /\ pc' = "returned"
    /\ UNCHANGED <<deduplicated_visits, parent_visits, visit_to_parent_map,
                   nested_visit_ids, pending, visit_id, top_level_parent_id,
                   visit_detail_list, idleEngineVars, linkVars, callVars>>

\* Steps 1-3, lines 321-364: collect, deduplicate, identify the parents
deduplicate ==
    /\ pc = "reclassify"
    /\ Len(collected_visits(omop_dict)) > 1
    /\ all_visits' = collected_visits(omop_dict)
    /\ deduplicated_visits' = deduplicate_visits(collected_visits(omop_dict), 1, <<>>)
    /\ parent_visits' = identify_inpatient_parents(deduplicated_visits')
    /\ pc' = "hierarchy"
    /\ UNCHANGED <<omop_dict, visit_to_parent_map, nested_visit_ids, pending, visit_id,
                   top_level_parent_id, visit_detail_list, idleEngineVars, linkVars, callVars>>

\* lines 366-371: no inpatient parent
no_parent_visits ==
    /\ pc = "hierarchy"
    /\ parent_visits = <<>>
    /\ omop_dict' = Remove(Put(omop_dict, "Visit", ListV(deduplicated_visits)),
                           "Visit_encompassingEncounter")
    /\ pc' = "returned"
    /\ UNCHANGED <<visitVars, idleEngineVars, linkVars, callVars>>

\* lines 374-395: the parent of every visit
build_parent_map ==
    /\ pc = "hierarchy"
    /\ parent_visits # <<>>
    /\ visit_to_parent_map' = parent_map_of(deduplicated_visits, parent_visits, 1, EmptyDict)
    /\ nested_visit_ids' = DOMAIN visit_to_parent_map'
    /\ pending' = nested_visit_ids'
    /\ visit_detail_list' = <<>>
    /\ pc' = "details"
    /\ UNCHANGED <<omop_dict, all_visits, deduplicated_visits, parent_visits, visit_id,
                   top_level_parent_id, idleEngineVars, linkVars, callVars>>

\* lines 399-405: the loop takes a nested visit, in the order of the set
next_nested_visit ==
    /\ pc = "details"
    /\ \E id \in pending :
        /\ visit_id' = id
        /\ top_level_parent_id' = visit_to_parent_map[id]
        /\ pending' = pending \ {id}
    /\ pc' = "walk"
    /\ UNCHANGED <<omop_dict, all_visits, deduplicated_visits, parent_visits,
                   visit_to_parent_map, nested_visit_ids, visit_detail_list,
                   idleEngineVars, linkVars, callVars>>

\* lines 406-407: one turn of the while loop
walk_up ==
    /\ pc = "walk"
    /\ top_level_parent_id \in DOMAIN visit_to_parent_map
    /\ top_level_parent_id' = visit_to_parent_map[top_level_parent_id]
    /\ UNCHANGED <<pc, omop_dict, all_visits, deduplicated_visits, parent_visits,
                   visit_to_parent_map, nested_visit_ids, pending, visit_id,
                   visit_detail_list, idleEngineVars, linkVars, callVars>>

\* lines 409-419: the walk has ended, the record is made
append_detail ==
    /\ pc = "walk"
    /\ top_level_parent_id \notin DOMAIN visit_to_parent_map
    /\ visit_detail_list' =
          Append(visit_detail_list,
                 create_visit_detail_record(
                     deduplicated_visits[position_of(deduplicated_visits, visit_id)],
                     top_level_parent_id,
                     parent_reference(
                         visit_to_parent_map[visit_id],
                         {get(parent_visits[i], "visit_occurrence_id")
                             : i \in DOMAIN parent_visits} \cap nested_visit_ids)))
    /\ pc' = "details"
    /\ UNCHANGED <<omop_dict, all_visits, deduplicated_visits, parent_visits,
                   visit_to_parent_map, nested_visit_ids, pending, visit_id,
                   top_level_parent_id, idleEngineVars, linkVars, callVars>>

\* Steps 6 and 7, lines 424-440
assemble ==
    /\ pc = "details"
    /\ pending = {}
    /\ omop_dict' =
          LET merged == Remove(Put(omop_dict, "Visit",
                                   ListV(final_visits(deduplicated_visits,
                                                      nested_visit_ids))),
                               "Visit_encompassingEncounter")
          IN  IF visit_detail_list # <<>>
              THEN Put(merged, "VISITDETAIL_visit_occurrence", ListV(visit_detail_list))
              ELSE merged
    /\ pc' = "returned"
    /\ UNCHANGED <<visitVars, idleEngineVars, linkVars, callVars>>

NextVisit ==
    \/ no_visit_data
    \/ only_one_visit
    \/ deduplicate
    \/ no_parent_visits
    \/ build_parent_map
    \/ next_nested_visit
    \/ walk_up
    \/ append_detail
    \/ assemble

SpecVisit == InitVisit /\ [][NextVisit]_vars

\* The interpreter runs the function on: a step that can be taken is taken.
\* Termination is checked on the inputs of at most MaxLoopVisits rows.
InitVisitShort == InitVisitUpTo(MaxLoopVisits)

FairSpecVisit == InitVisitShort /\ [][NextVisit]_vars /\ WF_vars(NextVisit)

(***************************************************************************)
(* Properties of the classifier (specifications SpecVisit, FairSpecVisit). *)
(***************************************************************************)
\* C4: processing always terminates: whatever the visit rows, also for
\* distinct inpatient visits of one person with the same start and end, the
\* classification (the upward walk through the parent map included)
\* eventually returns.
C4_ClassificationTerminates == <>(pc = "returned")

\* the terms of C5: the window of a visit, on timezone-stripped datetimes
Resolvable(v) == v.visit_start_datetime # Null /\ v.visit_end_datetime # Null

WindowStart(v) == strip_tz(v.visit_start_datetime).t

WindowEnd(v) == strip_tz(v.visit_end_datetime).t

Contains(a, b) ==
    /\ Resolvable(a) /\ Resolvable(b)
    /\ WindowStart(a) <= WindowStart(b) /\ WindowEnd(b) <= WindowEnd(a)

CandidateParent(p) ==
    /\ p.visit_concept_id = IntV(9201)
    /\ Resolvable(p)
    /\ WindowEnd(p) - WindowStart(p) < 367 * 86400

\* the set C of the claim
ContainingCandidates(v) ==
    {p \in Range(deduplicated_visits) :
        /\ CandidateParent(p)
        /\ p.person_id = v.person_id
        /\ p.visit_occurrence_id # v.visit_occurrence_id
        /\ Contains(p, v)}

IsChain(C) == \A a \in C : \A b \in C : Contains(a, b) \/ Contains(b, a)

\* C5: with C the candidate parents (inpatient, resolvable, under 367 days) of
\* the same person other than v that contain v: v has no parent if C is empty
\* or two members of C do not contain each other; otherwise its parent is a
\* member of C of smallest duration, contained in every other member of C.
C5_MostSpecificParent ==
    pc = "details" =>
        \A v \in Range(deduplicated_visits) :
            LET C == ContainingCandidates(v)
                id == v.visit_occurrence_id
            IN  IF C = {} \/ ~IsChain(C)
                THEN id \notin DOMAIN visit_to_parent_map
                ELSE /\ id \in DOMAIN visit_to_parent_map
                     /\ \E m \in C :
                          /\ m.visit_occurrence_id = visit_to_parent_map[id]
                          /\ \A x \in C :
                               /\ WindowEnd(m) - WindowStart(m)
                                     <= WindowEnd(x) - WindowStart(x)
                               /\ Contains(x, m)

\* a visit has a chain of two candidates of different durations and gets the
\* shorter one
C5_Witness ==
    /\ pc = "details"
    /\ \E v \in Range(deduplicated_visits) : \E m \in ContainingCandidates(v) :
       \E x \in ContainingCandidates(v) :
          /\ IsChain(ContainingCandidates(v))
          /\ WindowEnd(m) - WindowStart(m) < WindowEnd(x) - WindowStart(x)
          /\ visit_to_parent_map[v.visit_occurrence_id] = m.visit_occurrence_id

\* the lists the classifier returns
ReturnedRows(name) ==
    IF name \in DOMAIN omop_dict /\ omop_dict[name] # Null THEN omop_dict[name].v ELSE <<>>

\* the un-nested visit reached from id through the parent map
RECURSIVE Ancestor(_, _)
Ancestor(id, fuel) ==
    IF id \notin DOMAIN visit_to_parent_map \/ fuel = 0 THEN id
    ELSE Ancestor(visit_to_parent_map[id], fuel - 1)

DetailsOf(id) ==
    {i \in DOMAIN ReturnedRows("VISITDETAIL_visit_occurrence") :
        ReturnedRows("VISITDETAIL_visit_occurrence")[i].visit_detail_id = id}

\* C9: on return, every nested visit has a VisitDetail record whose
\* visit_detail_id is the visit's id, whose visit_occurrence_id is the id of
\* its top-level, un-nested ancestor, and whose visit_detail_parent_id is the
\* immediate parent's id if that parent is nested and Null otherwise.
C9_MultiLevelLinkage ==
    pc = "returned" =>
        \A id \in DOMAIN visit_to_parent_map :
            /\ DetailsOf(id) # {}
            /\ \A i \in DetailsOf(id) :
                LET d == ReturnedRows("VISITDETAIL_visit_occurrence")[i]
                    parent == visit_to_parent_map[id]
                IN  /\ Ancestor(id, MaxVisits) \notin DOMAIN visit_to_parent_map
                    /\ d.visit_occurrence_id = Ancestor(id, MaxVisits)
                    /\ d.visit_detail_parent_id =
                          IF parent \in DOMAIN visit_to_parent_map THEN parent ELSE Null

\* the chain of the claim: V1 contains V2 contains V3, V1 and V2 inpatient;
\* Visit = {V1}, V2' under V1 without parent, V3' under V1 with parent V2
C9_Witness ==
    /\ pc = "returned"
    /\ \E V1 \in Range(deduplicated_visits) : \E V2 \in Range(deduplicated_visits) :
       \E V3 \in Range(deduplicated_visits) :
          /\ CandidateParent(V1) /\ CandidateParent(V2)
          /\ Contains(V1, V2) /\ Contains(V2, V3)
          /\ Range(ReturnedRows("Visit")) = {V1}
          /\ \E i \in DetailsOf(V2.visit_occurrence_id) :
                LET d == ReturnedRows("VISITDETAIL_visit_occurrence")[i]
                IN  /\ d.visit_occurrence_id = V1.visit_occurrence_id
                    /\ d.visit_detail_parent_id = Null
          /\ \E i \in DetailsOf(V3.visit_occurrence_id) :
                LET d == ReturnedRows("VISITDETAIL_visit_occurrence")[i]
                IN  /\ d.visit_occurrence_id = V1.visit_occurrence_id
                    /\ d.visit_detail_parent_id = V2.visit_occurrence_id

\* the deduplicated visits; one visit alone is returned as it is
Deduplicated == IF Len(all_visits) = 1 THEN all_visits ELSE deduplicated_visits

Occurrences(rows, key, id) == Cardinality({i \in DOMAIN rows : rows[i][key] = id})

\* C10: on return, the Visit list is exactly the deduplicated visits without
\* a parent, the VisitDetail list has exactly one record per visit with a
\* parent, and every deduplicated visit id is in exactly one of the two lists.
C10_OutputAssembly ==
    pc = "returned" =>
        /\ ReturnedRows("Visit") =
              SelectSeq(Deduplicated,
                        LAMBDA v : v.visit_occurrence_id \notin DOMAIN visit_to_parent_map)
        /\ Len(ReturnedRows("VISITDETAIL_visit_occurrence"))
              = Cardinality(DOMAIN visit_to_parent_map)
        /\ \A id \in DOMAIN visit_to_parent_map : Cardinality(DetailsOf(id)) = 1
        /\ \A v \in Range(Deduplicated) :
              Occurrences(ReturnedRows("Visit"), "visit_occurrence_id",
                          v.visit_occurrence_id)
              + Occurrences(ReturnedRows("VISITDETAIL_visit_occurrence"),
                            "visit_detail_id", v.visit_occurrence_id) = 1

\* a repeated id was merged, one visit was nested and one was not
C10_Witness ==
    /\ pc = "returned"
    /\ Len(deduplicated_visits) < Len(all_visits)
    /\ ReturnedRows("Visit") # <<>>
    /\ ReturnedRows("VISITDETAIL_visit_occurrence") # <<>>

(***************************************************************************)
(* Properties of the classifier, continued.                                *)
(***************************************************************************)
\* the rows a source config of the input holds
SourceRows(name) ==
    IF name \in DOMAIN omop_dict /\ omop_dict[name] # Null THEN omop_dict[name].v ELSE <<>>

IdsOf(rows) == {rows[i].visit_occurrence_id : i \in DOMAIN rows}

FromVisitSource(v) == v \in Range(SourceRows("Visit"))

\* a list of visits holds every id once, and for an id of both sources a
\* record of the Visit source
MergedWithPrecedence(visits) ==
    /\ \A i, j \in DOMAIN visits :
          i # j => visits[i].visit_occurrence_id # visits[j].visit_occurrence_id
    /\ \A i \in DOMAIN visits :
          (visits[i].visit_occurrence_id \in
               IdsOf(SourceRows("Visit")) \cap IdsOf(SourceRows("Visit_encompassingEncounter")))
          => FromVisitSource(visits[i])

\* C21: classifier merge and dedupe.  In the list the hierarchy is computed
\* on, each visit_occurrence_id occurs at most once, and for an id produced by
\* both the Visit source and the encompassing-encounter source the surviving
\* record is the one of the Visit source, whichever of the two sources was
\* collected first.
C21_MergePrefersVisitSource ==
    pc = "hierarchy" =>
        /\ IdsOf(deduplicated_visits) = IdsOf(all_visits)
        /\ MergedWithPrecedence(deduplicated_visits)
        /\ MergedWithPrecedence(
              deduplicate_visits(SourceRows("Visit_encompassingEncounter")
                                    \o SourceRows("Visit"), 1, <<>>))

\* an id came from both sources with different records, and the record of the
\* Visit source survived
C21_Witness ==
    /\ pc = "hierarchy"
    /\ \E v \in Range(SourceRows("Visit")) :
       \E e \in Range(SourceRows("Visit_encompassingEncounter")) :
          /\ v.visit_occurrence_id = e.visit_occurrence_id
          /\ v.visit_start_datetime # e.visit_start_datetime
          /\ v \in Range(deduplicated_visits)
          /\ e \notin Range(deduplicated_visits)

InScenario == all_visits = SiblingScenario

V4 == SiblingScenario[4]

\* C23 (as stated): in the sibling-ambiguity scenario, with V1, V2 and V2b
\* inpatient-qualifying and V4 contained in V2 and V2b, the classifier
\* assigns V4 no parent: V4 remains in the top-level Visit list and no
\* VisitDetail row is made for it.
C23_ScenarioLeavesV4TopLevel ==
    (pc = "returned" /\ InScenario) =>
        /\ V4.visit_occurrence_id \notin DOMAIN visit_to_parent_map
        /\ V4 \in Range(ReturnedRows("Visit"))
        /\ DetailsOf(V4.visit_occurrence_id) = {}

\* C23 (amended): in the scenario V2b (01-02..01-04) contains V2
\* (01-02..01-03), so the visits containing V4 form the chain V1, V2b, V2 and
\* the classifier assigns V4 the parent V2: V4 leaves the top-level Visit list
\* and one VisitDetail row is made for it, under the top-level visit V1 with
\* parent V2.
C23_ScenarioNestsV4UnderV2 ==
    (pc = "returned" /\ InScenario) =>
        /\ V4.visit_occurrence_id \in DOMAIN visit_to_parent_map
        /\ visit_to_parent_map[V4.visit_occurrence_id] = IntV(2)
        /\ V4 \notin Range(ReturnedRows("Visit"))
        /\ Cardinality(DetailsOf(V4.visit_occurrence_id)) = 1
        /\ \A i \in DetailsOf(V4.visit_occurrence_id) :
              /\ ReturnedRows("VISITDETAIL_visit_occurrence")[i].visit_occurrence_id = IntV(1)
              /\ ReturnedRows("VISITDETAIL_visit_occurrence")[i].visit_detail_parent_id
                    = IntV(2)

\* the classifier has returned on the scenario, with V1 alone at the top
C23_Witness ==
    /\ pc = "returned" /\ InScenario
    /\ Range(ReturnedRows("Visit")) = {SiblingScenario[1]}
    /\ DetailsOf(V4.visit_occurrence_id) # {}

\* C28: after the classifier returns on an input holding at least one visit
\* row, in 'Visit', in 'Visit_encompassingEncounter' or in both, the result
\* has no 'Visit_encompassingEncounter' entry, also when the merged input
\* holds exactly one visit.
C28_EncompassingEncounterRemoved ==
    (pc = "returned" /\ all_visits # <<>>) =>
        "Visit_encompassingEncounter" \notin DOMAIN omop_dict

\* the visit reached from id by n steps through the parent map, None when
\* the walk leaves the map before
RECURSIVE ParentAfter(_, _)
ParentAfter(id, n) ==
    IF n = 0 THEN id
    ELSE IF id \notin DOMAIN visit_to_parent_map THEN Null
    ELSE ParentAfter(visit_to_parent_map[id], n - 1)

OwnAncestor(id) ==
    \E n \in 1..Cardinality(DOMAIN visit_to_parent_map) : ParentAfter(id, n) = id

DetailRecords == ReturnedRows("VISITDETAIL_visit_occurrence")

DetailsReferToReturnedRows ==
    \A i \in DOMAIN DetailRecords :
        /\ DetailRecords[i].visit_occurrence_id \in IdsOf(ReturnedRows("Visit"))
        /\ \/ DetailRecords[i].visit_detail_parent_id = Null
           \/ \E j \in DOMAIN DetailRecords :
                 /\ j # i
                 /\ DetailRecords[j].visit_detail_id = DetailRecords[i].visit_detail_parent_id

\* C30: referential integrity after classification.  For any input visit
\* list no visit is its own ancestor in the parent map; on return every
\* VisitDetail record's visit_occurrence_id is the id of a record of the final
\* top-level Visit list, and its visit_detail_parent_id is Null or the
\* visit_detail_id of another VisitDetail record of the list.
C30_ReferentialIntegrity ==
    /\ pc \in {"details", "walk", "returned"} =>
          \A id \in DOMAIN visit_to_parent_map : ~OwnAncestor(id)
    /\ pc = "returned" => DetailsReferToReturnedRows

(***************************************************************************)
(* The linker: assign_visit_occurrence_ids_to_events (Pass A) and          *)
(* assign_visit_detail_ids_to_events (Pass B).                             *)
(***************************************************************************)
domain_dates ==
    [Observation |-> [date |-> <<"observation_date", "observation_datetime">>,
                      id |-> "observation_id"],
     Drug |-> [start |-> <<"drug_exposure_start_date", "drug_exposure_start_datetime">>,
               end |-> <<"drug_exposure_end_date", "drug_exposure_end_datetime">>,
               id |-> "drug_exposure_id"]]

\* DDL.config_to_domain_name_dict.items(): <<config name, domain name>>
config_to_domain_name_dict ==
    << <<"Visit", "Visit">>, <<"Observation", "Observation">>, <<"Drug", "Drug">> >>

ClinicalDomains ==
    {"Measurement", "Observation", "Condition", "Procedure", "Drug", "Device"}

\* datetime.datetime.combine(date, datetime.time(23, 59, 59))
combine_end_of_day(date) == At(date.d, SecondsPerDay - 1)

\* a <= x <= b.  Comparing with None, or a date with a datetime, raises
\* TypeError; the except clause around the comparison swallows it and the
\* visit is not appended, which is the result FALSE.
between(a, x, b) ==
    /\ a # Null /\ a.k = x.k /\ le(a, x)
    /\ b # Null /\ b.k = x.k /\ le(x, b)

\* lines 524-545: is the date of the event in the window of the visit
visit_in_window(visit, date_field_value) ==
    LET start_visit_date == visit["visit_start_date"]
        start_visit_datetime == strip_tz(visit["visit_start_datetime"])
        end_visit_date == visit["visit_end_date"]
        end_visit_datetime == strip_tz(visit["visit_end_datetime"])
    IN  IF is_datetime(date_field_value)
        THEN IF start_visit_datetime # end_visit_datetime
             THEN between(start_visit_datetime, date_field_value, end_visit_datetime)
             ELSE /\ end_visit_date # Null
                  /\ between(start_visit_datetime, date_field_value,
                             combine_end_of_day(end_visit_date))
        ELSE IF is_date(date_field_value)
             THEN between(start_visit_date, date_field_value, end_visit_date)
             ELSE FALSE

\* lines 599-629: are both ends of the event in the window of the visit
visit_in_window_start_end(visit, start_date_value, end_date_value) ==
    LET start_visit_date == visit["visit_start_date"]
        start_visit_datetime == strip_tz(visit["visit_start_datetime"])
        end_visit_date == visit["visit_end_date"]
        end_visit_datetime == strip_tz(visit["visit_end_datetime"])
    IN  IF is_datetime(start_date_value) /\ is_datetime(end_date_value)
        THEN IF start_visit_datetime # end_visit_datetime
             THEN /\ between(start_visit_datetime, start_date_value, end_visit_datetime)
                  /\ between(start_visit_datetime, end_date_value, end_visit_datetime)
             ELSE /\ end_visit_date # Null
                  /\ between(start_visit_datetime, start_date_value,
                             combine_end_of_day(end_visit_date))
                  /\ between(start_visit_datetime, end_date_value,
                             combine_end_of_day(end_visit_date))
        ELSE IF is_date(start_date_value) /\ is_date(end_date_value)
             THEN /\ between(start_visit_date, start_date_value, end_visit_date)
                  /\ between(start_visit_date, end_date_value, end_visit_date)
             ELSE FALSE

\* the ids appended to matches, in the order of the visit list
ids_of(rows, key) == [i \in DOMAIN rows |-> rows[i][key]]

\* (mutant of set_visit: the first of several candidates is taken)
set_visit_first(thing, matches) ==
    IF Len(matches) >= 1 THEN Put(thing, "visit_occurrence_id", matches[1]) ELSE thing

\* lines 553-562 and 636-645
set_visit(thing, matches) ==
    IF Len(matches) = 1 THEN Put(thing, "visit_occurrence_id", matches[1])
    ELSE IF Len(matches) = 0 THEN thing
    ELSE Put(thing, "__visit_candidates", matches)

\* prefer the datetime when there is one
date_value(thing, names) ==
    IF thing[names[2]] # Null /\ is_datetime(thing[names[2]])
    THEN strip_tz(thing[names[2]])
    ELSE thing[names[1]]

\* lines 586-593: the datetime, else the end date, else the start
end_date_value_of(thing, names, start_date_value) ==
    IF thing[names[2]] # Null /\ is_datetime(thing[names[2]])
    THEN strip_tz(thing[names[2]])
    ELSE IF thing[names[1]] # Null THEN thing[names[1]]
    ELSE start_date_value

\* one turn of the loop over domain_dict in reconcile_visit_FK_with_specific_domain
reconcile_visit_FK_thing(domain, thing, visit_dict) ==
    IF "date" \in DOMAIN domain_dates[domain]
    THEN LET date_field_value == date_value(thing, domain_dates[domain].date)
         IN  IF date_field_value # Null
             THEN set_visit(thing,
                     ids_of(SelectSeq(visit_dict,
                                LAMBDA visit : visit_in_window(visit, date_field_value)),
                            "visit_occurrence_id"))
             ELSE thing
    ELSE IF "start" \in DOMAIN domain_dates[domain] /\ "end" \in DOMAIN domain_dates[domain]
    THEN LET start_date_value == date_value(thing, domain_dates[domain].start)
             end_date_value ==
                 end_date_value_of(thing, domain_dates[domain].end, start_date_value)
         IN  IF start_date_value # Null /\ end_date_value # Null
             THEN set_visit(thing,
                     ids_of(SelectSeq(visit_dict,
                                LAMBDA visit : visit_in_window_start_end(
                                                   visit, start_date_value, end_date_value)),
                            "visit_occurrence_id"))
             ELSE thing
    ELSE thing

\* lines 495-506: the early returns
reconcile_visit_FK(domain, thing, visit_dict) ==
    IF visit_dict = Null \/ domain \notin DOMAIN domain_dates THEN thing
    ELSE reconcile_visit_FK_thing(domain, thing, visit_dict.v)

get_visit_detail_duration(visit_detail_dict) ==
    LET start_datetime == get(visit_detail_dict, "visit_detail_start_datetime")
        end_datetime == get(visit_detail_dict, "visit_detail_end_datetime")
        start_date == get(visit_detail_dict, "visit_detail_start_date")
        end_date == get(visit_detail_dict, "visit_detail_end_date")
    IN  IF start_datetime # Null /\ end_datetime # Null
        THEN Days(strip_tz(end_datetime).t - strip_tz(start_datetime).t)
        ELSE IF start_date # Null /\ end_date # Null
        THEN Days((end_date.d - start_date.d) * SecondsPerDay)
        ELSE Days(0)

\* lines 782-789: plain containment, when the visit_detail has both bounds
detail_in_window(vd, event_date) ==
    LET vd_start_datetime == strip_tz(get(vd, "visit_detail_start_datetime"))
        vd_start_date == get(vd, "visit_detail_start_date")
        vd_end_datetime == strip_tz(get(vd, "visit_detail_end_datetime"))
        vd_end_date == get(vd, "visit_detail_end_date")
    IN  IF is_datetime(event_date)
        THEN /\ vd_start_datetime # Null /\ vd_end_datetime # Null
             /\ le(vd_start_datetime, event_date) /\ le(event_date, vd_end_datetime)
        ELSE IF is_date(event_date)
        THEN /\ vd_start_date # Null /\ vd_end_date # Null
             /\ le(vd_start_date, event_date) /\ le(event_date, vd_end_date)
        ELSE FALSE

\* lines 852-861
detail_in_window_start_end(vd, start_date_value, end_date_value) ==
    LET vd_start_datetime == strip_tz(get(vd, "visit_detail_start_datetime"))
        vd_start_date == get(vd, "visit_detail_start_date")
        vd_end_datetime == strip_tz(get(vd, "visit_detail_end_datetime"))
        vd_end_date == get(vd, "visit_detail_end_date")
    IN  IF is_datetime(start_date_value) /\ is_datetime(end_date_value)
        THEN /\ vd_start_datetime # Null /\ vd_end_datetime # Null
             /\ le(vd_start_datetime, start_date_value)
             /\ le(start_date_value, vd_end_datetime)
             /\ le(vd_start_datetime, end_date_value)
             /\ le(end_date_value, vd_end_datetime)
        ELSE IF is_date(start_date_value) /\ is_date(end_date_value)
        THEN /\ vd_start_date # Null /\ vd_end_date # Null
             /\ le(vd_start_date, start_date_value) /\ le(start_date_value, vd_end_date)
             /\ le(vd_start_date, end_date_value) /\ le(end_date_value, vd_end_date)
        ELSE FALSE

\* (mutant of carries_visit_id: no record is skipped)
carries_any_visit_id(thing) == TRUE

\* lines 753 and 812: a record without visit_occurrence_id is skipped
carries_visit_id(thing) ==
    "visit_occurrence_id" \in DOMAIN thing /\ thing["visit_occurrence_id"] # Null

\* lines 773 and 843: must be in the same visit_occurrence
same_visit(vd, thing) == get(vd, "visit_occurrence_id") = get(thing, "visit_occurrence_id")

\* min(matches, key=get_visit_detail_duration): the first of least duration
RECURSIVE most_specific_detail(_, _, _)
most_specific_detail(matches, i, best) ==
    IF i > Len(matches) THEN best
    ELSE IF get_visit_detail_duration(matches[i]).num < get_visit_detail_duration(best).num
         THEN most_specific_detail(matches, i + 1, matches[i])
         ELSE most_specific_detail(matches, i + 1, best)

\* (mutant of set_visit_detail: the first match is taken)
set_visit_detail_first(thing, matches) ==
    IF Len(matches) >= 1 THEN Put(thing, "visit_detail_id", matches[1]["visit_detail_id"])
    ELSE thing

\* lines 794-806 and 866-878
set_visit_detail(thing, matches) ==
    IF Len(matches) = 1 THEN Put(thing, "visit_detail_id", matches[1]["visit_detail_id"])
    ELSE IF Len(matches) > 1
    THEN Put(thing, "visit_detail_id",
             most_specific_detail(matches, 2, matches[1])["visit_detail_id"])
    ELSE thing

\* one turn of the loop over domain_dict in
\* reconcile_visit_detail_FK_with_specific_domain
reconcile_visit_detail_FK_thing(domain, thing, visit_detail_dict) ==
    IF ~carries_visit_id(thing)
    THEN thing
    ELSE IF "date" \in DOMAIN domain_dates[domain]
    THEN LET event_date == date_value(thing, domain_dates[domain].date)
         IN  IF event_date = Null THEN thing
             ELSE set_visit_detail(thing,
                     SelectSeq(visit_detail_dict,
                         LAMBDA vd : same_visit(vd, thing)
                                        /\ detail_in_window(vd, event_date)))
    ELSE IF "start" \in DOMAIN domain_dates[domain] /\ "end" \in DOMAIN domain_dates[domain]
    THEN LET start_date_value == date_value(thing, domain_dates[domain].start)
             end_date_value ==
                 end_date_value_of(thing, domain_dates[domain].end, start_date_value)
         IN  IF start_date_value = Null \/ end_date_value = Null THEN thing
             ELSE set_visit_detail(thing,
                     SelectSeq(visit_detail_dict,
                         LAMBDA vd : same_visit(vd, thing)
                                        /\ detail_in_window_start_end(
                                               vd, start_date_value, end_date_value)))
    ELSE thing

\* lines 729-734: the early returns
reconcile_visit_detail_FK(domain, thing, visit_detail_dict) ==
    IF domain \notin DOMAIN domain_dates THEN thing
    ELSE reconcile_visit_detail_FK_thing(domain, thing, visit_detail_dict)

\* the configs whose records a pass goes through (lines 669-671, 710-712)
processed_config(d, c) ==
    /\ has_rows(d, config_to_domain_name_dict[c][1])
    /\ config_to_domain_name_dict[c][2] \in ClinicalDomains

RECURSIVE next_config(_, _)
next_config(d, c) ==
    IF c > Len(config_to_domain_name_dict) \/ processed_config(d, c) THEN c
    ELSE next_config(d, c + 1)

\* (mutant of without_candidates: the second loop of lines 674-679 is left out)
with_candidates_kept(d) == d

\* lines 674-679: '__visit_candidates' is deleted from every record of the
\* processed configs
without_candidates(d) ==
    [name \in DOMAIN d |->
        IF \E c \in DOMAIN config_to_domain_name_dict :
              config_to_domain_name_dict[c][1] = name /\ processed_config(d, c)
        THEN ListV([i \in DOMAIN d[name].v |-> Remove(d[name].v[i], "__visit_candidates")])
        ELSE d[name]]

(***************************************************************************)
(* Inputs of the linker: the dictionary process_file hands to the two      *)
(* passes.  'Visit' holds the top-level visits, the visit_detail config    *)
(* the nested ones, 'Observation' events of one date and 'Drug' events of  *)
(* a start and an end.                                                     *)
(***************************************************************************)
MaxLinkVisits == 2

MaxDetails == 2

MaxEvents == 1

VISIT_CFG_NAME == "Visit"

VISIT_DETAIL_CFG_NAME == "VISITDETAIL_visit_occurrence"

\* <<start, end>>: two days, a single instant, no bounds at all
LinkVisitWindows ==
    { <<At(0, 0), At(2, 0)>>, <<At(1, 0), At(1, 0)>>, <<Null, Null>> }

\* <<start, end>>: two days, half a day, a single instant
DetailWindows ==
    { <<At(0, 0), At(2, 0)>>, <<At(1, 0), At(1, 43200)>>, <<At(1, 0), At(1, 0)>> }

\* the i-th top-level visit has the id i
LinkVisits(n, w) ==
    [i \in 1..n |-> MakeVisit(i, 1, 9201, w[i][1], w[i][2], "Visit")]

\* the visit a visit_detail is under: one of the top-level visits, or none
DetailVisitIds == {IntV(i) : i \in 1..MaxLinkVisits} \cup {Null}

\* the i-th nested visit has the id MaxLinkVisits + i and is under the visit voi[i]
LinkDetails(n, w, voi) ==
    [i \in 1..n |->
        create_visit_detail_record(
            MakeVisit(MaxLinkVisits + i, 1, 9202, w[i][1], w[i][2], "Visit"),
            voi[i], Null)]

\* <<date, datetime>> of an event: a datetime with its date, a datetime with
\* a timezone, one outside every window, a date alone, nothing
EventDates ==
    { <<DateV(1), At(1, 43200)>>,
      <<DateV(2), DateTimeV(2 * SecondsPerDay, "utc")>>,
      <<DateV(3), At(3, 0)>>,
      <<DateV(1), Null>>,
      <<Null, Null>> }

\* <<start date, start datetime, end date, end datetime>> of an event
EventIntervals ==
    { <<DateV(1), At(1, 0), DateV(1), At(1, 43200)>>,
      <<DateV(1), At(1, 0), Null, Null>>,
      <<DateV(1), At(1, 0), DateV(3), At(3, 0)>>,
      <<DateV(1), Null, DateV(1), Null>> }

\* the foreign key the engine has found for the event, if any
EventVisitIds == {Null, IntV(2)}

MakeObservation(id, dates, voi) ==
    [observation_id |-> IntV(id), person_id |-> IntV(1),
     observation_date |-> dates[1], observation_datetime |-> dates[2],
     visit_occurrence_id |-> voi, visit_detail_id |-> Null]

MakeDrug(id, interval, voi) ==
    [drug_exposure_id |-> IntV(id), person_id |-> IntV(1),
     drug_exposure_start_date |-> interval[1],
     drug_exposure_start_datetime |-> interval[2],
     drug_exposure_end_date |-> interval[3],
     drug_exposure_end_datetime |-> interval[4],
     visit_occurrence_id |-> voi, visit_detail_id |-> Null]

\* the dictionary with the config 'name' set, when there are rows for it or
\* when the config is always present
with_config(d, name, rows, always) ==
    IF rows = <<>> /\ ~always THEN d ELSE Put(d, name, ConfigValue(rows))

LinkDict(visits, details, observations, drugs) ==
    with_config(
        with_config(
            with_config(
                with_config(EmptyDict, VISIT_CFG_NAME, visits, TRUE),
                VISIT_DETAIL_CFG_NAME, details, FALSE),
            "Observation", observations, TRUE),
        "Drug", drugs, FALSE)

InitLink ==
    /\ pc = "pass_a"
    /\ \E nv \in 0..MaxLinkVisits : \E vw \in [1..nv -> LinkVisitWindows] :
       \E nd \in 0..MaxDetails : \E dw \in [1..nd -> DetailWindows] :
       \E dv \in [1..nd -> DetailVisitIds] :
       \E no \in 0..MaxEvents : \E od \in [1..no -> EventDates] :
       \E ov \in [1..no -> EventVisitIds] :
       \E nr \in 0..MaxEvents : \E ri \in [1..nr -> EventIntervals] :
          omop_dict = LinkDict(LinkVisits(nv, vw), LinkDetails(nd, dw, dv),
                               [i \in 1..no |-> MakeObservation(i, od[i], ov[i])],
                               [i \in 1..nr |-> MakeDrug(i, ri[i], Null)])
    /\ data_in = omop_dict
    /\ cfg_i = next_config(omop_dict, 1)
    /\ thing_i = 1
    /\ IdleEngine /\ IdleVisit /\ IdleCall

(***************************************************************************)
(* Actions of assign_visit_occurrence_ids_to_events and                    *)
(* assign_visit_detail_ids_to_events, called one after the other by        *)
(* process_file.                                                           *)
(***************************************************************************)
cfg_name_at(c) == config_to_domain_name_dict[c][1]

domain_name_at(c) == config_to_domain_name_dict[c][2]

\* the dictionary with the record at the loop position replaced
with_thing(d, c, i, thing) ==
    Put(d, cfg_name_at(c), ListV([d[cfg_name_at(c)].v EXCEPT ![i] = thing]))

\* the loop position after the record i of the config c
Advance(d, c, i) ==
    IF i < Len(d[cfg_name_at(c)].v) THEN <<c, i + 1>> ELSE <<next_config(d, c + 1), 1>>

\* one record in reconcile_visit_FK_with_specific_domain
pass_a_thing ==
    /\ pc = "pass_a"
    /\ cfg_i <= Len(config_to_domain_name_dict)
    /\ omop_dict' = with_thing(omop_dict, cfg_i, thing_i,
                       reconcile_visit_FK(domain_name_at(cfg_i),
                                          omop_dict[cfg_name_at(cfg_i)].v[thing_i],
                                          omop_dict[VISIT_CFG_NAME]))
    /\ cfg_i' = Advance(omop_dict, cfg_i, thing_i)[1]
    /\ thing_i' = Advance(omop_dict, cfg_i, thing_i)[2]
    /\ UNCHANGED <<pc, data_in, idleEngineVars, visitVars, callVars>>

\* lines 674-679: the candidates are deleted and the first pass returns
pass_a_cleanup ==
    /\ pc = "pass_a"
    /\ cfg_i > Len(config_to_domain_name_dict)
    /\ omop_dict' = without_candidates(omop_dict)
    /\ pc' = "pass_b"
    /\ cfg_i' = next_config(omop_dict, 1)
    /\ thing_i' = 1
    /\ UNCHANGED <<data_in, idleEngineVars, visitVars, callVars>>

\* lines 699-701: no visit_detail record
no_visit_detail ==
    /\ pc = "pass_b"
    /\ ~has_rows(omop_dict, VISIT_DETAIL_CFG_NAME)
    /\ pc' = "linked"
    /\ UNCHANGED <<omop_dict, linkVars, idleEngineVars, visitVars, callVars>>

\* one record in reconcile_visit_detail_FK_with_specific_domain
pass_b_thing ==
    /\ pc = "pass_b"
    /\ has_rows(omop_dict, VISIT_DETAIL_CFG_NAME)
    /\ cfg_i <= Len(config_to_domain_name_dict)
    /\ omop_dict' = with_thing(omop_dict, cfg_i, thing_i,
                       reconcile_visit_detail_FK(domain_name_at(cfg_i),
                                                 omop_dict[cfg_name_at(cfg_i)].v[thing_i],
                                                 omop_dict[VISIT_DETAIL_CFG_NAME].v))
    /\ cfg_i' = Advance(omop_dict, cfg_i, thing_i)[1]
    /\ thing_i' = Advance(omop_dict, cfg_i, thing_i)[2]
    /\ UNCHANGED <<pc, data_in, idleEngineVars, visitVars, callVars>>

\* the loop of lines 710-713 is over
pass_b_return ==
    /\ pc = "pass_b"
    /\ has_rows(omop_dict, VISIT_DETAIL_CFG_NAME)
    /\ cfg_i > Len(config_to_domain_name_dict)
    /\ pc' = "linked"
    /\ UNCHANGED <<omop_dict, linkVars, idleEngineVars, visitVars, callVars>>

NextLink ==
    \/ pass_a_thing
    \/ pass_a_cleanup
    \/ no_visit_detail
    \/ pass_b_thing
    \/ pass_b_return

SpecLink == InitLink /\ [][NextLink]_vars

(***************************************************************************)
(* Properties of the linker.                                               *)
(***************************************************************************)
\* the event records of the dictionary the linker was called with
Events ==
    {e \in {"Observation", "Drug"} \X (1..MaxEvents) :
        has_rows(data_in, e[1]) /\ e[2] <= Len(data_in[e[1]].v)}

EventIn(d, e) == d[e[1]].v[e[2]]

\* the effective start and end of an event: the datetime when there is one,
\* else the date; an event of one date starts and ends on it, an event with
\* no end ends at its start
Effective(dt, date) == IF dt # Null THEN strip_tz(dt) ELSE date

EventStart(e) ==
    LET r == EventIn(data_in, e)
    IN  IF e[1] = "Observation"
        THEN Effective(r["observation_datetime"], r["observation_date"])
        ELSE Effective(r["drug_exposure_start_datetime"], r["drug_exposure_start_date"])

EventEnd(e) ==
    LET r == EventIn(data_in, e)
        end == Effective(r["drug_exposure_end_datetime"], r["drug_exposure_end_date"])
    IN  IF e[1] = "Observation" \/ end = Null THEN EventStart(e) ELSE end

\* lo <= x <= hi, on values of one kind
Inside(x, lo, hi) ==
    /\ x # Null /\ lo # Null /\ hi # Null
    /\ x.k = lo.k /\ x.k = hi.k
    /\ IF x.k = "datetime" THEN lo.t <= x.t /\ x.t <= hi.t
                            ELSE lo.d <= x.d /\ x.d <= hi.d

\* the window of a visit for a value of the kind of x; a window whose start
\* and end are the same instant runs to the end of its last day
VisitWindowFor(v, x) ==
    IF x # Null /\ x.k = "datetime"
    THEN LET s == strip_tz(v["visit_start_datetime"])
             t == strip_tz(v["visit_end_datetime"])
         IN  IF s # t THEN <<s, t>>
             ELSE IF v["visit_end_date"] = Null THEN <<s, Null>>
             ELSE <<s, At(v["visit_end_date"].d, SecondsPerDay - 1)>>
    ELSE <<v["visit_start_date"], v["visit_end_date"]>>

\* M: the positions of the top-level visits whose window holds the event
MatchingVisits(e) ==
    IF data_in[VISIT_CFG_NAME] = Null THEN {}
    ELSE {i \in DOMAIN data_in[VISIT_CFG_NAME].v :
            LET v == data_in[VISIT_CFG_NAME].v[i]
                ws == VisitWindowFor(v, EventStart(e))
                we == VisitWindowFor(v, EventEnd(e))
            IN  /\ Inside(EventStart(e), ws[1], ws[2])
                /\ Inside(EventEnd(e), we[1], we[2])}

VisitIdAt(i) == data_in[VISIT_CFG_NAME].v[i]["visit_occurrence_id"]

DetailRows ==
    IF has_rows(data_in, VISIT_DETAIL_CFG_NAME) THEN data_in[VISIT_DETAIL_CFG_NAME].v
    ELSE <<>>

DetailWindowFor(vd, x) ==
    IF x # Null /\ x.k = "datetime"
    THEN <<strip_tz(vd["visit_detail_start_datetime"]),
           strip_tz(vd["visit_detail_end_datetime"])>>
    ELSE <<vd["visit_detail_start_date"], vd["visit_detail_end_date"]>>

\* K: the positions of the visit_detail rows of the visit of the event whose
\* window holds the event
ContainingDetails(e, of_visit) ==
    {j \in DOMAIN DetailRows :
        LET ws == DetailWindowFor(DetailRows[j], EventStart(e))
            we == DetailWindowFor(DetailRows[j], EventEnd(e))
        IN  /\ DetailRows[j]["visit_occurrence_id"] = of_visit
            /\ Inside(EventStart(e), ws[1], ws[2])
            /\ Inside(EventEnd(e), we[1], we[2])}

\* seconds from the start to the end of a visit_detail row
DetailSeconds(j) ==
    strip_tz(DetailRows[j]["visit_detail_end_datetime"]).t
        - strip_tz(DetailRows[j]["visit_detail_start_datetime"]).t

DetailIdAt(j) == DetailRows[j]["visit_detail_id"]

\* C7: after Pass B an event without a visit id has no visit_detail_id; for
\* an event with a visit id the candidates are the visit_detail rows of that
\* visit that contain it: none leaves visit_detail_id unset, one gives its
\* visit_detail_id, several give the visit_detail_id of one of least duration
C7_PassBMostSpecificDetail ==
    pc = "linked" =>
        \A e \in Events :
            LET now == EventIn(omop_dict, e)
                K == ContainingDetails(e, now["visit_occurrence_id"])
            IN  IF now["visit_occurrence_id"] = Null \/ K = {}
                THEN now["visit_detail_id"] = Null
                ELSE \E j \in K :
                        /\ now["visit_detail_id"] = DetailIdAt(j)
                        /\ \A j2 \in K : DetailSeconds(j) <= DetailSeconds(j2)

\* Pass B is over; an event of a visit lies in two visit_detail rows of that
\* visit and carries the id of the second, shorter one
C7_Witness ==
    /\ pc = "linked"
    /\ \E e \in Events :
          LET now == EventIn(omop_dict, e)
              K == ContainingDetails(e, now["visit_occurrence_id"])
          IN  /\ now["visit_occurrence_id"] # Null
              /\ K = {1, 2}
              /\ DetailSeconds(2) < DetailSeconds(1)
              /\ now["visit_detail_id"] = DetailIdAt(2)
    /\ \E e \in Events : \E j \in DOMAIN DetailRows :
          /\ EventIn(omop_dict, e)["visit_occurrence_id"] # Null
          /\ DetailRows[j]["visit_occurrence_id"]
                 # EventIn(omop_dict, e)["visit_occurrence_id"]
          /\ Inside(EventStart(e), DetailWindowFor(DetailRows[j], EventStart(e))[1],
                    DetailWindowFor(DetailRows[j], EventStart(e))[2])
          /\ EventIn(omop_dict, e)["visit_detail_id"] = Null

\* the four terminal states of an event record d
DetailLinked(d) == d["visit_occurrence_id"] # Null /\ d["visit_detail_id"] # Null

VisitOnly(d) == d["visit_occurrence_id"] # Null /\ d["visit_detail_id"] = Null

UnlinkedAmbiguous(d, e) ==
    /\ d["visit_occurrence_id"] = Null /\ d["visit_detail_id"] = Null
    /\ Cardinality(MatchingVisits(e)) > 1

UnlinkedNoMatch(d, e) ==
    /\ d["visit_occurrence_id"] = Null /\ d["visit_detail_id"] = Null
    /\ Cardinality(MatchingVisits(e)) = 0

TerminalStates(d, e) ==
    {s \in {"DetailLinked", "VisitOnly", "Unlinked-ambiguous", "Unlinked-no-match"} :
        \/ s = "DetailLinked" /\ DetailLinked(d)
        \/ s = "VisitOnly" /\ VisitOnly(d)
        \/ s = "Unlinked-ambiguous" /\ UnlinkedAmbiguous(d, e)
        \/ s = "Unlinked-no-match" /\ UnlinkedNoMatch(d, e)}

\* C8: in every step of the linker, a visit_occurrence_id changes only in
\* Pass A and a visit_detail_id only in Pass B, and only on a record that
\* carries a visit id; Pass B is never followed by Pass A; and when the
\* linker is done every event record is in exactly one of the four terminal
\* states
C8_LinkStateMachine ==
    [][/\ \A e \in Events :
            LET d == EventIn(omop_dict, e)
                d2 == EventIn(omop_dict', e)
            IN  /\ d2["visit_occurrence_id"] # d["visit_occurrence_id"]
                      => pc = "pass_a" /\ pc' = "pass_a"
                /\ d2["visit_detail_id"] # d["visit_detail_id"]
                      => pc = "pass_b" /\ d["visit_occurrence_id"] # Null
                /\ pc' = "linked" => Cardinality(TerminalStates(d2, e)) = 1
       /\ pc = "pass_a" => pc' \in {"pass_a", "pass_b"}
       /\ pc = "pass_b" => pc' \in {"pass_b", "linked"}
       /\ pc = "linked" => pc' = "linked"]_vars

\* the linker is done with one event linked to a visit_detail row and
\* another that Pass A left without a visit, though a visit_detail row of no
\* visit holds it
C8_Witness ==
    /\ pc = "linked"
    /\ \E e \in Events : DetailLinked(EventIn(omop_dict, e))
    /\ \E e \in Events :
          /\ UnlinkedAmbiguous(EventIn(omop_dict, e), e)
          /\ ContainingDetails(e, Null) # {}

(***************************************************************************)
(* Properties of the first pass: what it leaves alone and what it leaves   *)
(* behind.                                                                 *)
(***************************************************************************)
PassAReturned == pc \in {"pass_b", "linked"}

\* the visit_occurrence_id the event came with
CarriedVisitId(e) == EventIn(data_in, e)["visit_occurrence_id"]

\* C24: Pass A acts only on events that are missing a visit id: an event that
\* carries a non-null visit_occurrence_id before Pass A has the same
\* visit_occurrence_id after Pass A, whatever visits contain its date.
C24_PassAKeepsCarriedVisitId ==
    pc = "pass_b" =>
        \A e \in Events :
            CarriedVisitId(e) # Null =>
                EventIn(omop_dict, e)["visit_occurrence_id"] = CarriedVisitId(e)

\* the records of the configs the first pass went through
ProcessedRecords ==
    {r \in {"Observation", "Drug"} \X (1..MaxEvents) :
        has_rows(omop_dict, r[1]) /\ r[2] <= Len(omop_dict[r[1]].v)}

MaxHashLen == 3
MaxRows == 3

HashCharacters == {"a", "A", "|", "U+00E9", "U+00C9"}

HashInputs == UNION {[1..n -> HashCharacters] : n \in 0..MaxHashLen}

\* records of one config: two with the same items, listed in different order,
\* and one that differs from them in a value
Records ==
    { << <<"person_id", IntV(1)>>, <<"cfg_name", StrV(<<"a">>)>> >>,
      << <<"cfg_name", StrV(<<"a">>)>>, <<"person_id", IntV(1)>> >>,
      << <<"person_id", IntV(2)>>, <<"cfg_name", StrV(<<"a">>)>> >> }

RowLists == UNION {[1..n -> Records] : n \in 0..MaxRows}

MaxCallDay == 2

BoolV(b) == [k |-> "bool", v |-> b]

\* the windows of the visits: whole days from day 0 to day MaxCallDay
CallWindows == {w \in (0..MaxCallDay) \X (0..MaxCallDay) : w[1] <= w[2]}

\* a visit of a config with date and datetime columns, both read from the
\* same element: naive, with a timezone, or with no start in the document
FullVisit(start, end) ==
    [visit_occurrence_id |-> IntV(1),
     visit_start_date |-> date_of(start), visit_start_datetime |-> start,
     visit_end_date |-> date_of(end), visit_end_datetime |-> end]

\* a visit of a config with date columns only
DateOnlyVisit(start_day, end_day) ==
    [visit_occurrence_id |-> IntV(1),
     visit_start_date |-> DateV(start_day), visit_end_date |-> DateV(end_day)]

CallVisits ==
    {FullVisit(At(w[1], 0), At(w[2], 0)) : w \in CallWindows}
    \cup {FullVisit(At(w[1], 3600), At(w[2], 7200)) : w \in CallWindows}
    \cup {FullVisit(DateTimeV(w[1] * SecondsPerDay, "utc"),
                    DateTimeV(w[2] * SecondsPerDay, "utc")) : w \in CallWindows}
    \cup {FullVisit(Null, At(w[2], 0)) : w \in CallWindows}
    \cup {DateOnlyVisit(w[1], w[2]) : w \in CallWindows}

VisitPairs == {[k |-> "visits", child |-> c, parent |-> p] : c, p \in CallVisits}

\* a visit_detail row with the bounds of a visit
DetailOfVisit(visit) ==
    [visit_detail_id |-> IntV(1), visit_occurrence_id |-> IntV(1),
     visit_detail_start_date |-> get(visit, "visit_start_date"),
     visit_detail_start_datetime |-> get(visit, "visit_start_datetime"),
     visit_detail_end_date |-> get(visit, "visit_end_date"),
     visit_detail_end_datetime |-> get(visit, "visit_end_datetime")]

\* the effective dates of an event: midnight or noon of a day, or the day
CallEventDates ==
    {At(d, s) : d \in 0..MaxCallDay, s \in {0, 43200}} \cup {DateV(d) : d \in 0..MaxCallDay}

\* a window and an event of one date, or of a start and an end of one kind
WindowCalls ==
    LET visits == {c \in CallVisits : "visit_start_datetime" \in DOMAIN c}
    IN  {[k |-> "window", visit |-> v, date |-> x] :
            v \in visits, x \in CallEventDates}
        \cup {[k |-> "window_start_end", visit |-> v, start |-> p[1], end |-> p[2]] :
                v \in visits,
                p \in {q \in CallEventDates \X CallEventDates : q[1].k = q[2].k}}

InitCall ==
    /\ pc = "call"
    /\ call_argument \in {StrV(s) : s \in HashInputs} \cup {ListV(rows) : rows \in RowLists}
                          \cup VisitPairs \cup WindowCalls
    /\ call_result = Null
    /\ omop_dict = EmptyDict
    /\ IdleEngine /\ IdleVisit /\ IdleLink

call_create_hash ==
    /\ pc = "call"
    /\ call_argument.k = "str"
    /\ call_result' = create_hash(call_argument.v)
    /\ pc' = "returned"
    /\ UNCHANGED <<call_argument, omop_dict, idleEngineVars, visitVars, linkVars>>

call_make_distinct ==
    /\ pc = "call"
    /\ call_argument.k = "list"
    /\ call_result' = ListV(make_distinct(call_argument.v))
    /\ pc' = "returned"
    /\ UNCHANGED <<call_argument, omop_dict, idleEngineVars, visitVars, linkVars>>

call_is_temporally_contained ==
    /\ pc = "call"
    /\ call_argument.k = "visits"
    /\ call_result' = BoolV(is_temporally_contained(call_argument.child,
                                                     call_argument.parent))
    /\ pc' = "returned"
    /\ UNCHANGED <<call_argument, omop_dict, idleEngineVars, visitVars, linkVars>>

\* the window test of the first pass (lines 524-545) and of the second
\* (lines 782-789) on the same bounds and the same event
call_in_window ==
    /\ pc = "call"
    /\ call_argument.k = "window"
    /\ call_result' = [k |-> "in_window",
                       pass_a |-> visit_in_window(call_argument.visit, call_argument.date),
                       pass_b |-> detail_in_window(DetailOfVisit(call_argument.visit),
                                                   call_argument.date)]
    /\ pc' = "returned"
    /\ UNCHANGED <<call_argument, omop_dict, idleEngineVars, visitVars, linkVars>>

\* the same for an event of a start and an end (lines 599-629 and 852-861)
call_in_window_start_end ==
    /\ pc = "call"
    /\ call_argument.k = "window_start_end"
    /\ call_result' = [k |-> "in_window",
                       pass_a |-> visit_in_window_start_end(
                                      call_argument.visit, call_argument.start,
                                      call_argument.end),
                       pass_b |-> detail_in_window_start_end(
                                      DetailOfVisit(call_argument.visit),
                                      call_argument.start, call_argument.end)]
    /\ pc' = "returned"
    /\ UNCHANGED <<call_argument, omop_dict, idleEngineVars, visitVars, linkVars>>

NextCall ==
    \/ call_create_hash
    \/ call_make_distinct
    \/ call_is_temporally_contained
    \/ call_in_window
    \/ call_in_window_start_end

SpecCall == InitCall /\ [][NextCall]_vars

HashReturned == pc = "returned" /\ call_argument.k = "str"

\* str.upper() of one character, and of a string
UppercaseChar(c) == CASE c = "U+00E9" -> "U+00C9"
                      [] OTHER -> UpperChar(c)

uppercase(x) == [i \in DOMAIN x |-> UppercaseChar(x[i])]

\* C16: the Deterministic Hasher.  The hash of the empty string is Null; for
\* every non-empty x the hash is a value, and hash(x) = hash(uppercase(x));
\* the value returned is the value of the function at its input.
C16_DeterministicHasher ==
    HashReturned =>
        /\ call_argument.v = <<>> => call_result = Null
        /\ call_argument.v # <<>> =>
              /\ call_result # Null
              /\ call_result = create_hash(uppercase(call_argument.v))
        /\ call_result = create_hash(call_argument.v)

MakeDistinctReturned == pc = "returned" /\ call_argument.k = "list"

\* two records are the same record when they hold the same items
SameRecord(r, s) == {r[i] : i \in DOMAIN r} = {s[i] : i \in DOMAIN s}

\* the position at which a record is first seen in a list
FirstSeen(r, rows) ==
    CHOOSE i \in DOMAIN rows :
        /\ SameRecord(rows[i], r)
        /\ \A j \in DOMAIN rows : SameRecord(rows[j], r) => i <= j

\* C20: per-config deduplication keeps exactly one copy of each distinct
\* record (records are equal when all their fields are), keeps the records in
\* first-seen order, and is idempotent: applied to its own output it returns
\* the same list.
C20_MakeDistinct ==
    MakeDistinctReturned =>
        LET rows == call_argument.v
            unique_rows == call_result.v
        IN /\ \A i \in DOMAIN rows :
                  Cardinality({j \in DOMAIN unique_rows :
                                   SameRecord(unique_rows[j], rows[i])}) = 1
           /\ \A j \in DOMAIN unique_rows :
                  /\ \E i \in DOMAIN rows : SameRecord(rows[i], unique_rows[j])
                  /\ unique_rows[j] = rows[FirstSeen(unique_rows[j], rows)]
           /\ \A j, k \in DOMAIN unique_rows :
                  j < k => FirstSeen(unique_rows[j], rows) < FirstSeen(unique_rows[k], rows)
           /\ make_distinct(unique_rows) = unique_rows

\* of three records the third repeats the first with its items listed in
\* another order; two records are returned
C20_Witness ==
    /\ MakeDistinctReturned
    /\ Len(call_argument.v) = 3 /\ Len(call_result.v) = 2
    /\ SameRecord(call_argument.v[1], call_argument.v[3])
    /\ call_argument.v[1] # call_argument.v[3]

ContainmentReturned == pc = "returned" /\ call_argument.k = "visits"

\* a visit has a pair of datetimes, or a pair of dates
HasDatetimePair(v) ==
    /\ {"visit_start_datetime", "visit_end_datetime"} \subseteq DOMAIN v
    /\ v.visit_start_datetime # Null /\ v.visit_end_datetime # Null

HasDatePair(v) ==
    /\ {"visit_start_date", "visit_end_date"} \subseteq DOMAIN v
    /\ v.visit_start_date # Null /\ v.visit_end_date # Null

\* parent.start <= child.start and parent.end >= child.end, on the
\* timezone-stripped datetimes when both visits have them, on the dates
\* otherwise; false when a visit has neither pair
ContainedByClaim(child, parent) ==
    IF HasDatetimePair(child) /\ HasDatetimePair(parent)
    THEN /\ strip_tz(parent.visit_start_datetime).t <= strip_tz(child.visit_start_datetime).t
         /\ strip_tz(parent.visit_end_datetime).t >= strip_tz(child.visit_end_datetime).t
    ELSE IF HasDatePair(child) /\ HasDatePair(parent)
    THEN /\ parent.visit_start_date.d <= child.visit_start_date.d
         /\ parent.visit_end_date.d >= child.visit_end_date.d
    ELSE FALSE

\* C22: the containment test between two visits is true exactly when
\* parent.start <= child.start and parent.end >= child.end (boundaries
\* inclusive) on timezone-stripped values, using datetimes when present and
\* dates otherwise; it is false only when one side has neither a date pair
\* nor a datetime pair.
C22_ContainmentTest ==
    ContainmentReturned =>
        call_result = BoolV(ContainedByClaim(call_argument.child, call_argument.parent))

WindowTestReturned == pc = "returned" /\ call_result.k = "in_window"

\* C26: Pass B decides containment with the same date logic as Pass A: for
\* any event and any window bounds the event is inside a visit_detail window
\* in Pass B exactly when it is inside a visit window of the same bounds in
\* Pass A, a window with start = end reaching to the end of its day when the
\* event is compared by datetime.
C26_SameDateLogic ==
    WindowTestReturned => call_result.pass_b = call_result.pass_a

====
